---- MODULE Spec2Model ----
(***************************************************************************)
(* Frame pipeline and swapchain lifecycle of Vortek's RendererState        *)
(* (src/src/graphics/rendering.rs and rendering/{swapchain,render_pass,    *)
(* framebuffer}.rs).                                                       *)
(*                                                                         *)
(* The CPU side is one thread: every handler (draw_clear_frame, Drop) is   *)
(* one action, computed step by step over a record `m` of the renderer's   *)
(* fields, the device queue and the call's event log.  The GPU side is     *)
(* the device queue: operations are retired in submission order by         *)
(* GpuComplete, or by a CPU wait (wait_for_fence, wait_idle) that blocks   *)
(* until the operations it waits for have been retired.                    *)
(***************************************************************************)
EXTENDS Integers, Sequences, FiniteSets, TLC

\* Number of backbuffer images returned by the swapchain (imageCount).
NumImages == 2
\* Largest number of swapchains created during one run (bounds the injected faults).
MaxSwapchains == 2

Images == 0 .. (NumImages - 1)

VARIABLES
    recreate_swapchain,   \* RendererState.recreate_swapchain
    swapchain_state,      \* RendererState.swapchain_state: [id, backbuffer]; id = 0 is None
    render_pass_state,    \* RendererState.render_pass_state: id of its render pass
    framebuffer_state,    \* RendererState.framebuffer_state
    viewport,             \* RendererState.viewport: id of the swapchain whose extent it has
    created,              \* number of swapchains created so far (the last one's id)
    queue,                \* device queue: operations submitted and not yet completed
    log,                  \* device calls made by the last CPU call, in order
    result,               \* what the last CPU call returned
    phase,                \* "running", "disposed", "panicked" or "hung"
    streak,               \* complete frames drawn on the current framebuffer state
    fence_resets,         \* per image: wait+reset pairs during the streak
    after_failed_acquire, \* the last call was a draw_clear_frame that followed one whose acquisition failed
    sel                   \* a call of one of the selection functions: [fn, input, output]

vars == << recreate_swapchain, swapchain_state, render_pass_state, framebuffer_state,
           viewport, created, queue, log, result, phase, streak, fence_resets,
           after_failed_acquire, sel >>

-----------------------------------------------------------------------------
(* Values *)

Extent2D(width, height) == [width |-> width, height |-> height]

\* Option<SwapchainState>: None.  A swapchain state is its id (the number of
\* swapchains created up to it), whether it still holds its backbuffer, and
\* its extent.
NoSwapchain == [id |-> 0, backbuffer |-> FALSE, extent |-> Extent2D(0, 0)]

\* The Err values of draw_clear_frame, by their front message.
ErrWaitIdle == "Could not wait for device to become idle: "
ErrSwapchain == "Could not create swapchain: "
ErrRenderPass == "Could not create render pass: "
ErrFramebuffer == "Could not create framebuffer: "
ErrWaitFence == "Could not wait for in-flight fence: "
ErrResetFence == "Could not reset in-flight fence: "
PanicNoSwapchain == "panic: No swapchain state in renderer state."
PanicNoBackbuffer == "panic: No backbuffer in swapchain state."
PanicZeroExtent == "panic: Image extent is zero."
PanicWaitFence == "panic: Could not wait for in-flight fence"
Hang == "hang: wait_for_fence never returns"

Errors == {ErrWaitIdle, ErrSwapchain, ErrRenderPass, ErrFramebuffer, ErrWaitFence, ErrResetFence}
Panics == {PanicNoSwapchain, PanicNoBackbuffer, PanicZeroExtent, PanicWaitFence}

\* What the driver can be made to do in one call: at most one failure, since
\* every failure ends the call.
RecreationFaults == {"wait_idle", "create_swapchain", "create_render_pass",
                     "create_framebuffer", "drop_wait_fence", "zero_width", "zero_height"}
FrameFaults == {"acquire", "wait_fence", "reset_fence", "present"}

\* One device call of the log.  id: the object (generation) the call is about,
\* idx: image index or semaphore slot, sem/sig: semaphores waited on / signaled,
\* cb: command buffer, busy: an uncompleted queue operation references the object
\* (for a fence wait: the fence was not signaled yet when the wait began).
Ev(ev, id, idx) ==
    [ev |-> ev, id |-> id, idx |-> idx, fb |-> -1, sem |-> -1, sig |-> -1, cb |-> -1,
     busy |-> FALSE]

EvBusy(ev, id, idx, busy) == [Ev(ev, id, idx) EXCEPT !.busy = busy]

-----------------------------------------------------------------------------
(* The device queue *)

Ops(q) == {q[k] : k \in 1 .. Len(q)}

SwapchainInUse(q, sc) == \E o \in Ops(q) : o.sc = sc

RenderPassInUse(q, rp) == \E o \in Ops(q) : o.kind = "submit" /\ o.rp = rp

\* framebuffer, image view, command pool, command buffers and fence of image i
ImageResourcesInUse(q, fb, i) ==
    \E o \in Ops(q) : o.kind = "submit" /\ o.fb = fb /\ o.img = i

AcquireSemaphoreInUse(q, fb, s) ==
    \E o \in Ops(q) : o.kind = "submit" /\ o.fb = fb /\ o.sem = s

PresentSemaphoreInUse(q, fb, s) ==
    \E o \in Ops(q) : o.fb = fb /\ \/ (o.kind = "submit" /\ o.sig = s)
                                   \/ (o.kind = "present" /\ o.sem = s)

\* The fences of framebuffer state fb after the operations `done` completed.
Retire(fb, done) ==
    [fb EXCEPT !.in_flight_fences =
        [i \in Images |->
            \/ fb.in_flight_fences[i]
            \/ \E o \in Ops(done) : o.kind = "submit" /\ o.fb = fb.id /\ o.fence = i]]

\* Position in q of the first submission that signals fence i of framebuffer state fb (0: none).
FencePosition(q, fb, i) ==
    LET hits == {k \in 1 .. Len(q) : q[k].kind = "submit" /\ q[k].fb = fb /\ q[k].fence = i}
    IN  IF hits = {} THEN 0 ELSE CHOOSE k \in hits : \A j \in hits : k <= j

-----------------------------------------------------------------------------
(* The record the handlers compute on: the renderer's fields, the queue, the
   log, the call's result ("" while the call runs) and the call's locals. *)

NoFramebufferState ==
    [id |-> 0,
     in_flight_fences |-> [i \in Images |-> TRUE],
     command_buffer_lists |-> [i \in Images |-> << >>],
     allocated |-> [i \in Images |-> 0],
     next_semaphore_index |-> 0]

Cur ==
    [recreate_swapchain |-> recreate_swapchain,
     swapchain_state |-> swapchain_state,
     render_pass_state |-> render_pass_state,
     framebuffer_state |-> framebuffer_state,
     viewport |-> viewport,
     created |-> created,
     queue |-> queue,
     log |-> << >>,
     result |-> "",
     dropping |-> NoFramebufferState,
     semaphore_index |-> -1,
     swap_image_index |-> -1,
     command_buffer |-> -1]

Running(m) == m.result = ""

\* A device call is appended to the log, stamped with the current framebuffer state.
Log(m, e) == [m EXCEPT !.log = Append(@, [e EXCEPT !.fb = m.framebuffer_state.id])]

Return(m, r) == [m EXCEPT !.result = r]

\* The call goes on only while it has not returned, panicked or hung.
LogIfRunning(m, e) == IF Running(m) THEN Log(m, e) ELSE m

\* The CPU blocks until fence i of framebuffer state fb is signaled: the queue
\* runs up to the submission that signals it.  A fence that is not signaled
\* and that no queued submission signals is waited on forever.
BlockOnFence(m, fb, i) ==
    LET pos == FencePosition(m.queue, fb.id, i)
        done == SubSeq(m.queue, 1, pos)
    IN  IF fb.in_flight_fences[i] THEN m
        ELSE IF pos = 0 THEN Return(m, Hang)
        ELSE [m EXCEPT !.queue = SubSeq(@, pos + 1, Len(@)),
                       !.framebuffer_state = Retire(@, done),
                       !.dropping = Retire(@, done)]

-----------------------------------------------------------------------------
(* framebuffer.rs: impl Drop for FramebufferState, on the state m.dropping *)


FramebufferState_drop_wait(m, i, fault) ==
    IF fault = "drop_wait_fence"
    THEN Return(Log(m, Ev("wait_for_fence_failed", m.dropping.id, i)), PanicWaitFence)
    ELSE LogIfRunning(BlockOnFence(m, m.dropping, i),
                      EvBusy("wait_for_fence", m.dropping.id, i, ~m.dropping.in_flight_fences[i]))

\* device.destroy_fence(fence)
FramebufferState_drop_destroy_fence(m, i) ==
    IF ~Running(m) THEN m
    ELSE Log(m, EvBusy("destroy_fence", m.dropping.id, i,
                       ImageResourcesInUse(m.queue, m.dropping.id, i)))

RECURSIVE FramebufferState_drop_fences(_, _, _)
FramebufferState_drop_fences(m, i, fault) ==
    IF i >= NumImages \/ ~Running(m) THEN m
    ELSE FramebufferState_drop_fences(
            FramebufferState_drop_destroy_fence(FramebufferState_drop_wait(m, i, fault), i),
            i + 1, fault)

\* command_pool.free(command_buffer_list); device.destroy_command_pool(command_pool)
FramebufferState_drop_pools(m) ==
    LET fb == m.dropping.id
        calls == [k \in 1 .. 2 * NumImages |->
                    LET i == (k - 1) \div 2
                        busy == ImageResourcesInUse(m.queue, fb, i)
                    IN  [IF k % 2 = 1 THEN EvBusy("free_command_buffers", fb, i, busy)
                                      ELSE EvBusy("destroy_command_pool", fb, i, busy)
                         EXCEPT !.fb = m.framebuffer_state.id]]
    IN  IF Running(m) THEN [m EXCEPT !.log = @ \o calls] ELSE m

\* Faulty variant: the semaphores outlive the state that is dropped.
FramebufferState_drop_keeping_semaphores(m) == m

\* device.destroy_semaphore of every acquire, then of every present semaphore
FramebufferState_drop_semaphores(m) ==
    LET fb == m.dropping.id
        acq == [k \in 1 .. NumImages |->
                    [EvBusy("destroy_acquire_semaphore", fb, k - 1,
                            AcquireSemaphoreInUse(m.queue, fb, k - 1))
                     EXCEPT !.fb = m.framebuffer_state.id]]
        pre == [k \in 1 .. NumImages |->
                    [EvBusy("destroy_present_semaphore", fb, k - 1,
                            PresentSemaphoreInUse(m.queue, fb, k - 1))
                     EXCEPT !.fb = m.framebuffer_state.id]]
    IN  IF Running(m) THEN [m EXCEPT !.log = @ \o acq \o pre] ELSE m

FramebufferState_drop_framebuffers(m) ==
    LET fb == m.dropping.id
        fbs == [k \in 1 .. NumImages |->
                    [EvBusy("destroy_framebuffer", fb, k - 1,
                            ImageResourcesInUse(m.queue, fb, k - 1))
                     EXCEPT !.fb = m.framebuffer_state.id]]
        ivs == [k \in 1 .. NumImages |->
                    [EvBusy("destroy_image_view", fb, k - 1,
                            ImageResourcesInUse(m.queue, fb, k - 1))
                     EXCEPT !.fb = m.framebuffer_state.id]]
    IN  IF Running(m) THEN [m EXCEPT !.log = @ \o fbs \o ivs] ELSE m

\* Faulty variant: the semaphores are destroyed before the command pools.
FramebufferState_drop_semaphores_first(m, fb, fault) ==
    [FramebufferState_drop_framebuffers(
        FramebufferState_drop_pools(
            FramebufferState_drop_semaphores(
                FramebufferState_drop_fences([m EXCEPT !.dropping = fb], 0, fault))))
     EXCEPT !.dropping = NoFramebufferState]

FramebufferState_drop(m, fb, fault) ==
    [FramebufferState_drop_framebuffers(
        FramebufferState_drop_semaphores(
            FramebufferState_drop_pools(
                FramebufferState_drop_fences([m EXCEPT !.dropping = fb], 0, fault))))
     EXCEPT !.dropping = NoFramebufferState]

\* swapchain.rs: impl Drop for SwapchainState
SwapchainState_drop(m, sc) ==
    Log(m, EvBusy("destroy_swapchain", sc.id, -1, SwapchainInUse(m.queue, sc.id)))

\* render_pass.rs: impl Drop for RenderPassState
RenderPassState_drop(m, rp) ==
    Log(m, EvBusy("destroy_render_pass", rp, -1, RenderPassInUse(m.queue, rp)))

-----------------------------------------------------------------------------
(* rendering.rs: RendererState::recreate_swapchain and the constructors it calls *)

\* device.wait_idle(): every queued operation completes before it returns.
wait_idle(m, fault) ==
    IF ~Running(m) THEN m
    ELSE IF fault = "wait_idle" THEN Return(Log(m, Ev("wait_idle_failed", -1, -1)), ErrWaitIdle)
    ELSE Log([m EXCEPT !.queue = << >>,
                       !.framebuffer_state = Retire(@, m.queue)],
             Ev("wait_idle", -1, -1))

\* self.swapchain_state.take().expect(..): the old SwapchainState is dropped here.
take_swapchain_state(m) ==
    IF ~Running(m) THEN m
    ELSE IF m.swapchain_state.id = 0 THEN Return(m, PanicNoSwapchain)
    ELSE [SwapchainState_drop(m, m.swapchain_state) EXCEPT !.swapchain_state = NoSwapchain]

\* The extent SwapchainState::determine_extent gives the new swapchain: the
\* surface and the window can make its width or its height zero.
NewExtent(fault) ==
    IF fault = "zero_width" THEN Extent2D(0, 1)
    ELSE IF fault = "zero_height" THEN Extent2D(1, 0)
    ELSE Extent2D(1, 1)

\* What SwapchainState::new asks the surface and the window before it
\* configures the swapchain, in the order it asks.
SurfaceQueries == <<"surface_capabilities", "surface_supported_formats",
                    "window_inner_physical_size">>

\* surface.capabilities(..), surface.supported_formats(..) and, in
\* determine_extent, window_state.inner_physical_size()
query_surface(m) ==
    [m EXCEPT !.log = @ \o [k \in 1 .. Len(SurfaceQueries) |->
                                [Ev(SurfaceQueries[k], -1, -1)
                                 EXCEPT !.fb = m.framebuffer_state.id]]]

\* self.swapchain_state = Some(SwapchainState::new(..)?)
SwapchainState_new(m, fault) ==
    IF ~Running(m) THEN m
    ELSE IF fault = "create_swapchain"
    THEN Return(Log(query_surface(m), Ev("create_swapchain_failed", -1, -1)), ErrSwapchain)
    ELSE Log([query_surface(m)
              EXCEPT !.created = @ + 1,
                     !.swapchain_state = [id |-> m.created + 1, backbuffer |-> TRUE,
                                          extent |-> NewExtent(fault)]],
             Ev("create_swapchain", m.created + 1, -1))

\* Faulty variant: the old render pass is kept.
RenderPassState_new_keeping_old(m, fault) ==
    IF ~Running(m) THEN m
    ELSE IF fault = "create_render_pass"
    THEN Return(Log(m, Ev("create_render_pass_failed", -1, -1)), ErrRenderPass)
    ELSE m

\* Faulty variant: the old render pass is dropped before the new one is created.
RenderPassState_new_dropping_first(m, fault) ==
    IF ~Running(m) THEN m
    ELSE IF fault = "create_render_pass"
    THEN Return(Log(RenderPassState_drop(m, m.render_pass_state),
                    Ev("create_render_pass_failed", -1, -1)),
                ErrRenderPass)
    ELSE [Log(RenderPassState_drop(m, m.render_pass_state),
              Ev("create_render_pass", m.swapchain_state.id, -1))
          EXCEPT !.render_pass_state = m.swapchain_state.id]

\* self.render_pass_state = RenderPassState::new(..)?: the new render pass is
\* created first, the assignment then drops the old RenderPassState.  A render
\* pass is identified by the swapchain whose format it was created from.
RenderPassState_new(m, fault) ==
    IF ~Running(m) THEN m
    ELSE IF fault = "create_render_pass"
    THEN Return(Log(m, Ev("create_render_pass_failed", -1, -1)), ErrRenderPass)
    ELSE [RenderPassState_drop(Log(m, Ev("create_render_pass", m.swapchain_state.id, -1)),
                               m.render_pass_state)
          EXCEPT !.render_pass_state = m.swapchain_state.id]

\* self.framebuffer_state = FramebufferState::new(..)?: take_backbuffer, the
\* creations, then the assignment drops the old FramebufferState.
FreshFramebufferState(id) ==
    [id |-> id,
     in_flight_fences |-> [i \in Images |-> TRUE],
     command_buffer_lists |-> [i \in Images |-> << >>],
     allocated |-> [i \in Images |-> 0],
     next_semaphore_index |-> 0]

\* Faulty variant: the images are handed out and the swapchain keeps them.
take_backbuffer_keeping_it(m) ==
    Log(m, Ev("take_backbuffer", m.swapchain_state.id, -1))

\* swapchain_state.take_backbuffer()
take_backbuffer(m) ==
    Log([m EXCEPT !.swapchain_state.backbuffer = FALSE],
        Ev("take_backbuffer", m.swapchain_state.id, -1))

\* image views, framebuffers, fences, semaphores and command pools are created.
\* A framebuffer state is identified by the swapchain whose backbuffer it took.
FramebufferState_create(m) ==
    Log(m, [Ev("create_framebuffer_state", m.swapchain_state.id, -1)
            EXCEPT !.sig = m.render_pass_state])

\* Faulty variant: the renderer goes on with the frame resources it had.
FramebufferState_assign_keeping_old(m) == m

\* the assignment self.framebuffer_state = .., once the old state is dropped
FramebufferState_assign(m) ==
    IF ~Running(m) THEN m
    ELSE [m EXCEPT !.framebuffer_state = FreshFramebufferState(m.swapchain_state.id)]

\* create_framebuffers: the negation of what it asserts of the extent
ZeroExtent(extent) == ~(extent.width > 0 /\ extent.height > 0)

\* Faulty variant: a zero extent is returned to the caller as an error.
FramebufferState_new_reporting_zero_extent(m, fault) ==
    IF ~Running(m) THEN m
    ELSE IF ~m.swapchain_state.backbuffer THEN Return(m, PanicNoBackbuffer)
    ELSE IF ZeroExtent(m.swapchain_state.extent)
    THEN Return(Log(take_backbuffer(m), Ev("assert_extent_failed", m.swapchain_state.id, -1)),
                ErrFramebuffer)
    ELSE IF fault = "create_framebuffer"
    THEN Return(Log(take_backbuffer(m), Ev("create_framebuffer_state_failed", -1, -1)),
                ErrFramebuffer)
    ELSE FramebufferState_assign(
            FramebufferState_drop(FramebufferState_create(take_backbuffer(m)),
                                  m.framebuffer_state, fault))

\* FramebufferState::new takes the backbuffer, asserts in create_framebuffers
\* that the extent is not zero, creates its objects, and the assignment to
\* self.framebuffer_state drops the old FramebufferState.
FramebufferState_new(m, fault) ==
    IF ~Running(m) THEN m
    ELSE IF ~m.swapchain_state.backbuffer THEN Return(m, PanicNoBackbuffer)
    ELSE IF ZeroExtent(m.swapchain_state.extent)
    THEN Return(Log(take_backbuffer(m), Ev("assert_extent_failed", m.swapchain_state.id, -1)),
                PanicZeroExtent)
    ELSE IF fault = "create_framebuffer"
    THEN Return(Log(take_backbuffer(m), Ev("create_framebuffer_state_failed", -1, -1)),
                ErrFramebuffer)
    ELSE FramebufferState_assign(
            FramebufferState_drop(FramebufferState_create(take_backbuffer(m)),
                                  m.framebuffer_state, fault))

\* self.viewport = Self::create_viewport(self.swapchain_state.as_ref().unwrap().extent())
create_viewport(m) ==
    IF ~Running(m) THEN m
    ELSE Log([m EXCEPT !.viewport = m.swapchain_state.id],
             Ev("create_viewport", m.swapchain_state.id, -1))

RendererState_recreate_swapchain(m, fault) ==
    create_viewport(
        FramebufferState_new(
            RenderPassState_new(
                SwapchainState_new(
                    take_swapchain_state(
                        wait_idle(m, fault)),
                    fault),
                fault),
            fault))

-----------------------------------------------------------------------------
(* rendering.rs: RendererState::draw_clear_frame *)

\* if self.recreate_swapchain { self.recreate_swapchain()?; self.recreate_swapchain = false; }
\* Faulty variant: the flag is cleared whether the recreation succeeded or not.
clear_recreate_swapchain_always(m) == [m EXCEPT !.recreate_swapchain = FALSE]

\* self.recreate_swapchain = false, reached only when recreate_swapchain()? did
\* not return
clear_recreate_swapchain(m) ==
    IF Running(m) THEN [m EXCEPT !.recreate_swapchain = FALSE] ELSE m

\* Faulty variant: an error of the recreation is dropped and the frame goes on.
recreate_if_needed_ignoring_errors(m, fault) ==
    IF ~m.recreate_swapchain THEN m
    ELSE [RendererState_recreate_swapchain(m, fault)
          EXCEPT !.result = "", !.recreate_swapchain = FALSE]

recreate_if_needed(m, fault) ==
    IF ~m.recreate_swapchain THEN m
    ELSE clear_recreate_swapchain(RendererState_recreate_swapchain(m, fault))

\* Faulty variant: the index is advanced first and the new value is returned.
advance_semaphore_index_returning_next(m) ==
    IF ~Running(m) THEN m
    ELSE LET next == (m.framebuffer_state.next_semaphore_index + 1) % NumImages
         IN  Log([m EXCEPT !.semaphore_index = next,
                           !.framebuffer_state.next_semaphore_index = next],
                 Ev("advance_semaphore_index", m.framebuffer_state.id, next))

\* framebuffer.rs: FramebufferState::advance_semaphore_index
advance_semaphore_index(m) ==
    IF ~Running(m) THEN m
    ELSE LET current == m.framebuffer_state.next_semaphore_index
         IN  Log([m EXCEPT !.semaphore_index = current,
                           !.framebuffer_state.next_semaphore_index = (current + 1) % NumImages],
                 Ev("advance_semaphore_index", m.framebuffer_state.id, current))

\* Faulty variant: a failed acquisition is returned to the caller as an error.
acquire_image_reporting_error(m, fault, img) ==
    IF ~Running(m) THEN m
    ELSE IF m.swapchain_state.id = 0 THEN Return(m, PanicNoSwapchain)
    ELSE IF fault = "acquire"
    THEN Return(Log(m, [Ev("acquire_image_failed", m.swapchain_state.id, -1)
                        EXCEPT !.sem = m.semaphore_index]),
                "Could not acquire image: ")
    ELSE Log([m EXCEPT !.swap_image_index = img],
             [Ev("acquire_image", m.swapchain_state.id, img)
              EXCEPT !.sem = m.semaphore_index])

\* Faulty variant: a failed acquisition waits for the device to be idle
\* before it returns.
acquire_image_waiting_on_failure(m, fault, img) ==
    IF ~Running(m) THEN m
    ELSE IF m.swapchain_state.id = 0 THEN Return(m, PanicNoSwapchain)
    ELSE IF fault = "acquire"
    THEN Return(Log([m EXCEPT !.recreate_swapchain = TRUE,
                              !.queue = << >>,
                              !.framebuffer_state = Retire(@, m.queue)],
                    [Ev("acquire_image_failed", m.swapchain_state.id, -1)
                     EXCEPT !.sem = m.semaphore_index]),
                "Ok")
    ELSE Log([m EXCEPT !.swap_image_index = img],
             [Ev("acquire_image", m.swapchain_state.id, img)
              EXCEPT !.sem = m.semaphore_index])

\* Faulty variant: the surface is asked for its capabilities before every
\* acquisition.
acquire_image_querying_surface(m, fault, img) ==
    IF ~Running(m) THEN m
    ELSE IF m.swapchain_state.id = 0 THEN Return(m, PanicNoSwapchain)
    ELSE IF fault = "acquire"
    THEN Return(Log([Log(m, Ev("surface_capabilities", -1, -1))
                     EXCEPT !.recreate_swapchain = TRUE],
                    [Ev("acquire_image_failed", m.swapchain_state.id, -1)
                     EXCEPT !.sem = m.semaphore_index]),
                "Ok")
    ELSE Log([Log(m, Ev("surface_capabilities", -1, -1)) EXCEPT !.swap_image_index = img],
             [Ev("acquire_image", m.swapchain_state.id, img)
              EXCEPT !.sem = m.semaphore_index])

\* swapchain.acquire_image(u64::MAX, Some(acquire_semaphore), None).  busy: a
\* queued submission that waits on the acquire semaphore has not completed.
acquire_image(m, fault, img) ==
    IF ~Running(m) THEN m
    ELSE IF m.swapchain_state.id = 0 THEN Return(m, PanicNoSwapchain)
    ELSE IF fault = "acquire"
    THEN Return(Log([m EXCEPT !.recreate_swapchain = TRUE],
                    [EvBusy("acquire_image_failed", m.swapchain_state.id, -1,
                            AcquireSemaphoreInUse(m.queue, m.framebuffer_state.id,
                                                  m.semaphore_index))
                     EXCEPT !.sem = m.semaphore_index]),
                "Ok")
    ELSE Log([m EXCEPT !.swap_image_index = img],
             [EvBusy("acquire_image", m.swapchain_state.id, img,
                     AcquireSemaphoreInUse(m.queue, m.framebuffer_state.id,
                                           m.semaphore_index))
              EXCEPT !.sem = m.semaphore_index])

\* Faulty variant: the wait returns at once, whether the fence is signaled or not.
wait_for_fence_returning_at_once(m, fault) ==
    IF ~Running(m) THEN m
    ELSE IF fault = "wait_fence"
    THEN Return(Log(m, Ev("wait_for_fence_failed", m.framebuffer_state.id, m.swap_image_index)),
                ErrWaitFence)
    ELSE Log(m, EvBusy("wait_for_fence", m.framebuffer_state.id, m.swap_image_index,
                       ~m.framebuffer_state.in_flight_fences[m.swap_image_index]))

\* Faulty variant: the fence of the following image is waited on.
wait_for_fence_of_next_image(m, fault) ==
    IF ~Running(m) THEN m
    ELSE IF fault = "wait_fence"
    THEN Return(Log(m, Ev("wait_for_fence_failed", m.framebuffer_state.id, m.swap_image_index)),
                ErrWaitFence)
    ELSE LogIfRunning(BlockOnFence(m, m.framebuffer_state, (m.swap_image_index + 1) % NumImages),
                      EvBusy("wait_for_fence", m.framebuffer_state.id,
                             (m.swap_image_index + 1) % NumImages,
                             ~m.framebuffer_state.in_flight_fences[
                                    (m.swap_image_index + 1) % NumImages]))

\* Faulty variant: a failed wait panics, as the waits of Drop for
\* FramebufferState do.
wait_for_fence_or_panic(m, fault) ==
    IF ~Running(m) THEN m
    ELSE IF fault = "wait_fence"
    THEN Return(Log(m, Ev("wait_for_fence_failed", m.framebuffer_state.id, m.swap_image_index)),
                PanicWaitFence)
    ELSE LogIfRunning(BlockOnFence(m, m.framebuffer_state, m.swap_image_index),
                      EvBusy("wait_for_fence", m.framebuffer_state.id, m.swap_image_index,
                             ~m.framebuffer_state.in_flight_fences[m.swap_image_index]))

\* device.wait_for_fence(in_flight_fence, u64::MAX)?
wait_for_fence(m, fault) ==
    IF ~Running(m) THEN m
    ELSE IF fault = "wait_fence"
    THEN Return(Log(m, Ev("wait_for_fence_failed", m.framebuffer_state.id, m.swap_image_index)),
                ErrWaitFence)
    ELSE LogIfRunning(BlockOnFence(m, m.framebuffer_state, m.swap_image_index),
                      EvBusy("wait_for_fence", m.framebuffer_state.id, m.swap_image_index,
                             ~m.framebuffer_state.in_flight_fences[m.swap_image_index]))

\* Faulty variant: a failed reset asks for a recreation.
reset_fence_requesting_recreation(m, fault) ==
    IF ~Running(m) THEN m
    ELSE IF fault = "reset_fence"
    THEN Return(Log([m EXCEPT !.recreate_swapchain = TRUE],
                    Ev("reset_fence_failed", m.framebuffer_state.id, m.swap_image_index)),
                ErrResetFence)
    ELSE Log([m EXCEPT !.framebuffer_state.in_flight_fences[m.swap_image_index] = FALSE],
             Ev("reset_fence", m.framebuffer_state.id, m.swap_image_index))

\* Faulty variant: a reset that fails has reset the fence all the same.
reset_fence_resetting_on_failure(m, fault) ==
    IF ~Running(m) THEN m
    ELSE IF fault = "reset_fence"
    THEN Return(Log([m EXCEPT !.framebuffer_state.in_flight_fences[m.swap_image_index] = FALSE],
                    Ev("reset_fence_failed", m.framebuffer_state.id, m.swap_image_index)),
                ErrResetFence)
    ELSE Log([m EXCEPT !.framebuffer_state.in_flight_fences[m.swap_image_index] = FALSE],
             Ev("reset_fence", m.framebuffer_state.id, m.swap_image_index))

\* Faulty variant: the fence of the following image is reset.
reset_fence_of_next_image(m, fault) ==
    IF ~Running(m) THEN m
    ELSE IF fault = "reset_fence"
    THEN Return(Log(m, Ev("reset_fence_failed", m.framebuffer_state.id, m.swap_image_index)),
                ErrResetFence)
    ELSE Log([m EXCEPT !.framebuffer_state.in_flight_fences[(m.swap_image_index + 1) % NumImages]
                            = FALSE],
             Ev("reset_fence", m.framebuffer_state.id, (m.swap_image_index + 1) % NumImages))

\* device.reset_fence(in_flight_fence)?
reset_fence(m, fault) ==
    IF ~Running(m) THEN m
    ELSE IF fault = "reset_fence"
    THEN Return(Log(m, Ev("reset_fence_failed", m.framebuffer_state.id, m.swap_image_index)),
                ErrResetFence)
    ELSE Log([m EXCEPT !.framebuffer_state.in_flight_fences[m.swap_image_index] = FALSE],
             Ev("reset_fence", m.framebuffer_state.id, m.swap_image_index))

\* command_pool.reset(false)
command_pool_reset(m) ==
    IF ~Running(m) THEN m
    ELSE Log(m, EvBusy("command_pool_reset", m.framebuffer_state.id, m.swap_image_index,
                       ImageResourcesInUse(m.queue, m.framebuffer_state.id, m.swap_image_index)))

\* Faulty variant: a new command buffer is allocated in every frame.
pop_command_buffer_always_allocating(m) ==
    IF ~Running(m) THEN m
    ELSE LET i == m.swap_image_index
             fresh == m.framebuffer_state.allocated[i] + 1
         IN  Log([m EXCEPT !.command_buffer = fresh,
                           !.framebuffer_state.allocated[i] = fresh],
                 [Ev("acquire_command_buffer", m.framebuffer_state.id, i)
                  EXCEPT !.cb = fresh])

\* command_buffer_list.pop().unwrap_or_else(|| command_pool.acquire_command_buffer())
pop_command_buffer(m) ==
    IF ~Running(m) THEN m
    ELSE LET i == m.swap_image_index
             list == m.framebuffer_state.command_buffer_lists[i]
             fresh == m.framebuffer_state.allocated[i] + 1
         IN  IF list # << >>
             THEN Log([m EXCEPT !.command_buffer = list[Len(list)],
                               !.framebuffer_state.command_buffer_lists[i] =
                                    SubSeq(list, 1, Len(list) - 1)],
                      [Ev("pop", m.framebuffer_state.id, i) EXCEPT !.cb = list[Len(list)]])
             ELSE Log([m EXCEPT !.command_buffer = fresh,
                               !.framebuffer_state.allocated[i] = fresh],
                      [Ev("acquire_command_buffer", m.framebuffer_state.id, i)
                       EXCEPT !.cb = fresh])

\* command_buffer.begin(); begin_render_pass_inline(render_pass, framebuffer, ..); finish()
record(m) ==
    IF ~Running(m) THEN m
    ELSE LET i == m.swap_image_index
             fb == m.framebuffer_state.id
             pending == \E o \in Ops(m.queue) :
                            o.kind = "submit" /\ o.fb = fb /\ o.img = i
                                /\ o.cb = m.command_buffer
         IN  Log(Log(m, [EvBusy("begin", fb, i, pending) EXCEPT !.cb = m.command_buffer]),
                 [EvBusy("begin_render_pass_inline", m.render_pass_state, i,
                         ImageResourcesInUse(m.queue, fb, i))
                  EXCEPT !.cb = m.command_buffer])

\* Faulty variant: the semaphores are picked by image index, not by slot.
submit_with_semaphores_of_image(m) ==
    IF ~Running(m) THEN m
    ELSE LET op == [kind |-> "submit",
                    sc |-> m.swapchain_state.id,
                    rp |-> m.render_pass_state,
                    fb |-> m.framebuffer_state.id,
                    img |-> m.swap_image_index,
                    sem |-> m.swap_image_index,
                    sig |-> m.swap_image_index,
                    fence |-> m.swap_image_index,
                    cb |-> m.command_buffer]
         IN  Log([m EXCEPT !.queue = Append(@, op)],
                 [Ev("submit", op.fb, op.img)
                  EXCEPT !.sem = op.sem, !.sig = op.sig, !.cb = op.cb])

\* Faulty variant: the submission is made without the fence.
submit_without_fence(m) ==
    IF ~Running(m) THEN m
    ELSE LET op == [kind |-> "submit",
                    sc |-> m.swapchain_state.id,
                    rp |-> m.render_pass_state,
                    fb |-> m.framebuffer_state.id,
                    img |-> m.swap_image_index,
                    sem |-> m.semaphore_index,
                    sig |-> m.semaphore_index,
                    fence |-> -1,
                    cb |-> m.command_buffer]
         IN  Log([m EXCEPT !.queue = Append(@, op)],
                 [Ev("submit", op.fb, op.img)
                  EXCEPT !.sem = op.sem, !.sig = op.sig, !.cb = op.cb])

\* a queued present that waits on present semaphore s of framebuffer state fb
PresentPending(q, fb, s) ==
    \E o \in Ops(q) : o.kind = "present" /\ o.fb = fb /\ o.sem = s

\* queues[0].submit(submission, Some(in_flight_fence)).  busy: a queued present
\* that waits on the present semaphore the submission signals has not completed.
submit(m) ==
    IF ~Running(m) THEN m
    ELSE LET op == [kind |-> "submit",
                    sc |-> m.swapchain_state.id,
                    rp |-> m.render_pass_state,
                    fb |-> m.framebuffer_state.id,
                    img |-> m.swap_image_index,
                    sem |-> m.semaphore_index,
                    sig |-> m.semaphore_index,
                    fence |-> m.swap_image_index,
                    cb |-> m.command_buffer]
         IN  Log([m EXCEPT !.queue = Append(@, op)],
                 [EvBusy("submit", op.fb, op.img, PresentPending(m.queue, op.fb, op.sig))
                  EXCEPT !.sem = op.sem, !.sig = op.sig, !.cb = op.cb])

\* Faulty variant: the command buffer is dropped, the list stays empty.
push_command_buffer_dropping(m) ==
    IF ~Running(m) THEN m
    ELSE Log(m, [Ev("push", m.framebuffer_state.id, m.swap_image_index)
                 EXCEPT !.cb = m.command_buffer])

\* command_buffer_list.push(command_buffer)
push_command_buffer(m) ==
    IF ~Running(m) THEN m
    ELSE Log([m EXCEPT !.framebuffer_state.command_buffer_lists[m.swap_image_index] =
                            Append(@, m.command_buffer)],
             [Ev("push", m.framebuffer_state.id, m.swap_image_index)
              EXCEPT !.cb = m.command_buffer])

\* Faulty variant: a failed present is returned to the caller as an error.
present_reporting_error(m, fault) ==
    IF ~Running(m) THEN m
    ELSE IF m.swapchain_state.id = 0 THEN Return(m, PanicNoSwapchain)
    ELSE IF fault = "present"
    THEN Return(Log(m, [Ev("present_failed", m.swapchain_state.id, m.swap_image_index)
                        EXCEPT !.sem = m.semaphore_index]),
                "Could not present image: ")
    ELSE LET op == [kind |-> "present",
                    sc |-> m.swapchain_state.id,
                    rp |-> 0,
                    fb |-> m.framebuffer_state.id,
                    img |-> m.swap_image_index,
                    sem |-> m.semaphore_index,
                    sig |-> -1,
                    fence |-> -1,
                    cb |-> -1]
         IN  Return(Log([m EXCEPT !.queue = Append(@, op)],
                        [Ev("present", op.sc, op.img) EXCEPT !.sem = op.sem]),
                    "Ok")

\* swapchain.present(queue, swap_image_index, iter::once(present_semaphore))
present(m, fault) ==
    IF ~Running(m) THEN m
    ELSE IF m.swapchain_state.id = 0 THEN Return(m, PanicNoSwapchain)
    ELSE IF fault = "present"
    THEN Return(Log([m EXCEPT !.recreate_swapchain = TRUE],
                    [Ev("present_failed", m.swapchain_state.id, m.swap_image_index)
                     EXCEPT !.sem = m.semaphore_index]),
                "Ok")
    ELSE LET op == [kind |-> "present",
                    sc |-> m.swapchain_state.id,
                    rp |-> 0,
                    fb |-> m.framebuffer_state.id,
                    img |-> m.swap_image_index,
                    sem |-> m.semaphore_index,
                    sig |-> -1,
                    fence |-> -1,
                    cb |-> -1]
         IN  Return(Log([m EXCEPT !.queue = Append(@, op)],
                        [Ev("present", op.sc, op.img) EXCEPT !.sem = op.sem]),
                    "Ok")

\* Faulty variant: the call returns after the submission, without presenting.
RendererState_draw_clear_frame_without_present(m, fault, img) ==
    [push_command_buffer(
        submit(
            record(
                pop_command_buffer(
                    command_pool_reset(
                        reset_fence(
                            wait_for_fence(
                                acquire_image(
                                    advance_semaphore_index(
                                        recreate_if_needed(m, fault)),
                                    fault, img),
                                fault),
                            fault))))))
     EXCEPT !.result = IF @ = "" THEN "Ok" ELSE @]

RendererState_draw_clear_frame(m, fault, img) ==
    present(
        push_command_buffer(
            submit(
                record(
                    pop_command_buffer(
                        command_pool_reset(
                            reset_fence(
                                wait_for_fence(
                                    acquire_image(
                                        advance_semaphore_index(
                                            recreate_if_needed(m, fault)),
                                        fault, img),
                                    fault),
                                fault)))))),
        fault)

-----------------------------------------------------------------------------
(* rendering.rs: impl Drop for RendererState.  drop() takes the swapchain
   state; the fields are then dropped in declaration order: backend_state,
   device_state (one of three Rc clones), swapchain_state (None by now),
   render_pass_state, framebuffer_state.  The device goes with the last clone. *)

RendererState_drop_take(m) ==
    IF m.swapchain_state.id = 0 THEN m
    ELSE [SwapchainState_drop(m, m.swapchain_state) EXCEPT !.swapchain_state = NoSwapchain]

RendererState_drop_release(m) ==
    IF Running(m) THEN Return(Log(m, Ev("release_device", -1, -1)), "Dropped") ELSE m

\* Faulty variant: the renderer's clone of the device is the last one, and it
\* goes before the render pass and the frame resources.
RendererState_drop_fields_device_first(m, fault) ==
    [FramebufferState_drop(
        RenderPassState_drop(Log(m, Ev("release_device", -1, -1)), m.render_pass_state),
        m.framebuffer_state, fault)
     EXCEPT !.result = IF @ = "" THEN "Dropped" ELSE @]

RendererState_drop_fields(m, fault) ==
    RendererState_drop_release(
        FramebufferState_drop(RenderPassState_drop(m, m.render_pass_state),
                              m.framebuffer_state, fault))

RendererState_drop(m, fault) ==
    RendererState_drop_fields(RendererState_drop_take(m), fault)

-----------------------------------------------------------------------------
(* The state machine *)


\* No selection function is being called.
NoSelection == [fn |-> "none", input |-> << >>, done |-> FALSE, output |-> "none"]

\* RendererState::new succeeded.
RendererNew ==
    /\ recreate_swapchain = FALSE
    /\ swapchain_state = [id |-> 1, backbuffer |-> FALSE, extent |-> Extent2D(1, 1)]
    /\ render_pass_state = 1
    /\ framebuffer_state = FreshFramebufferState(1)
    /\ viewport = 1
    /\ created = 1
    /\ queue = << >>
    /\ log = << >>
    /\ result = "New"
    /\ phase = "running"
    /\ streak = 0
    /\ fence_resets = [i \in Images |-> 0]
    /\ after_failed_acquire = FALSE

Init ==
    /\ RendererNew
    /\ sel = NoSelection

HasEv(l, ev) == \E k \in 1 .. Len(l) : l[k].ev = ev

PhaseAfter(m) ==
    IF m.result \in Panics THEN "panicked"
    ELSE IF m.result = Hang THEN "hung"
    ELSE IF m.result = "Dropped" THEN "disposed"
    ELSE "running"

Commit(m) ==
    /\ recreate_swapchain' = m.recreate_swapchain
    /\ swapchain_state' = m.swapchain_state
    /\ render_pass_state' = m.render_pass_state
    /\ framebuffer_state' = m.framebuffer_state
    /\ viewport' = m.viewport
    /\ created' = m.created
    /\ queue' = m.queue
    /\ log' = m.log
    /\ result' = m.result
    /\ phase' = PhaseAfter(m)
    /\ UNCHANGED sel

\* The call gets as far as creating another swapchain.
CreatesSwapchain(fault) ==
    /\ recreate_swapchain
    /\ swapchain_state # NoSwapchain
    /\ fault \notin {"wait_idle", "create_swapchain"}

\* The faults the driver may inject into this call.  The number of swapchains
\* is capped: a call that creates one is taken only below the cap, and the
\* swapchain is reported out of date only while it can still be replaced, or,
\* by a failed acquisition, in the call that created the last one.
FaultAllowed(fault) ==
    /\ fault \in RecreationFaults => recreate_swapchain
    /\ CreatesSwapchain(fault) => created < MaxSwapchains
    /\ fault = "acquire" => created < MaxSwapchains
    /\ fault = "present" =>
            created + (IF recreate_swapchain THEN 1 ELSE 0) < MaxSwapchains

\* The faults that end the call before the swapchain hands out an image.
NoImageFaults == (RecreationFaults \ {"drop_wait_fence"}) \cup {"acquire"}

\* The history of the current framebuffer state after a call that ended as m.
StreakAfter(m) ==
    LET base == IF m.framebuffer_state.id # framebuffer_state.id THEN 0 ELSE streak
    IN  IF HasEv(m.log, "present") /\ base < NumImages THEN base + 1 ELSE NumImages + 1

\* The number of times the call that ended as m waited on and then reset fence i
\* of its framebuffer state.
WaitResetPairs(m, i) ==
    Cardinality({k \in 2 .. Len(m.log) :
                    /\ m.log[k].ev = "reset_fence"
                    /\ m.log[k].id = m.framebuffer_state.id /\ m.log[k].idx = i
                    /\ m.log[k - 1].ev = "wait_for_fence"
                    /\ m.log[k - 1].id = m.framebuffer_state.id /\ m.log[k - 1].idx = i})

FenceResetsAfter(m) ==
    LET base == IF m.framebuffer_state.id # framebuffer_state.id
                THEN [i \in Images |-> 0] ELSE fence_resets
    IN  IF StreakAfter(m) > NumImages THEN [i \in Images |-> 0]
        ELSE [i \in Images |-> base[i] + WaitResetPairs(m, i)]

CommitFrame(m) ==
    /\ Commit(m)
    /\ streak' = StreakAfter(m)
    /\ fence_resets' = FenceResetsAfter(m)
    /\ after_failed_acquire' = HasEv(log, "acquire_image_failed")

DrawFrame(fault, img) ==
    /\ phase = "running"
    /\ FaultAllowed(fault)
    /\ fault \in NoImageFaults => img = 0
    /\ CommitFrame(RendererState_draw_clear_frame(Cur, fault, img))

Dispose(fault) ==
    /\ phase = "running"
    /\ Commit(RendererState_drop(Cur, fault))
    /\ after_failed_acquire' = FALSE
    /\ UNCHANGED << streak, fence_resets >>

\* The device completes the operation at the head of its queue.
GpuComplete ==
    /\ phase = "running"
    /\ queue # << >>
    /\ queue' = Tail(queue)
    /\ framebuffer_state' = Retire(framebuffer_state, << Head(queue) >>)
    /\ UNCHANGED << recreate_swapchain, swapchain_state, render_pass_state, viewport,
                    created, log, result, phase, streak, fence_resets,
                    after_failed_acquire, sel >>

Next ==
    \/ \E fault \in {"none"} \cup RecreationFaults \cup FrameFaults, img \in Images :
            DrawFrame(fault, img)
    \/ \E fault \in {"none", "drop_wait_fence"} : Dispose(fault)
    \/ GpuComplete

Spec == Init /\ [][Next]_vars

-----------------------------------------------------------------------------
(* Reading the log of the last call *)

Calls == 1 .. Len(log)

Logged(ev) == \E k \in Calls : log[k].ev = ev

DestroyCalls ==
    {"destroy_swapchain", "destroy_render_pass", "destroy_fence", "free_command_buffers",
     "destroy_command_pool", "destroy_acquire_semaphore", "destroy_present_semaphore",
     "destroy_framebuffer", "destroy_image_view"}

\* the calls that tear down the FramebufferState (the frame resource pool)
PoolTeardownCalls == DestroyCalls \ {"destroy_swapchain", "destroy_render_pass"}

ReuseCalls == {"command_pool_reset", "pop", "acquire_command_buffer", "begin",
               "begin_render_pass_inline"}

\* the last call was the drop of the renderer (a draw_clear_frame begins with
\* wait_idle or advance_semaphore_index)
LastCallIsDrop ==
    /\ log # << >>
    /\ log[1].ev \in {"destroy_swapchain", "destroy_render_pass"}

\* the last call was the drop of the renderer and ran to its end
Disposed == phase = "disposed"

-----------------------------------------------------------------------------
(* Resource lifetime *)

\* C1: no device resource (swapchain, render pass, framebuffer, image view,
\* command pool, command buffer, semaphore, fence) is destroyed while a
\* submission or present that references it is still in the device queue.
C1_NoDestroyWhileInUse ==
    \A k \in Calls : log[k].ev \in DestroyCalls => ~log[k].busy

\* C2: in draw_clear_frame the command pool of the acquired image is reset and
\* its command buffer is taken and recorded only after the fence of that image
\* has been waited on, and at none of these calls is a submission that uses the
\* image's command buffers, pool or framebuffer still in the device queue.
C2_ReuseOnlyAfterFenceWait ==
    \A k \in Calls :
        log[k].ev \in ReuseCalls =>
            /\ ~log[k].busy
            /\ \E j \in 1 .. (k - 1) :
                    /\ log[j].ev = "wait_for_fence"
                    /\ log[j].id = log[k].fb
                    /\ log[j].idx = log[k].idx

\* A frame whose fence wait had to block for an earlier submission on the same
\* image, and which then reused that image's command buffer.
C2_Witness ==
    \E j, k \in Calls :
        /\ j < k
        /\ log[j].ev = "wait_for_fence" /\ log[j].busy
        /\ log[k].ev = "pop" /\ log[k].idx = log[j].idx
        /\ Logged("begin")

-----------------------------------------------------------------------------
(* Deferred recovery *)

\* C3: when the image acquisition fails, draw_clear_frame sets
\* recreate_swapchain (NeedsSwapchainRecreation) and returns Ok, never an error.
C3_AcquireFailureDeferred ==
    Logged("acquire_image_failed") => result = "Ok" /\ recreate_swapchain

C3_Witness ==
    /\ Logged("acquire_image_failed")
    /\ queue # << >>
    /\ phase = "running"

\* C4: when the present fails, after the command buffer was submitted,
\* draw_clear_frame sets recreate_swapchain and returns Ok, never an error.
C4_PresentFailureDeferred ==
    \A k \in Calls :
        log[k].ev = "present_failed" =>
            /\ result = "Ok"
            /\ recreate_swapchain
            /\ \E j \in 1 .. (k - 1) : log[j].ev = "submit" /\ log[j].idx = log[k].idx

C4_Witness ==
    /\ Logged("present_failed")
    /\ Logged("submit")
    /\ recreate_swapchain

\* In the call's log the three objects are created, in this order, before
\* position k.
RebuiltBefore(k) ==
    \E a, b, c \in 1 .. (k - 1) :
        /\ a < b /\ b < c
        /\ log[a].ev = "create_swapchain" /\ log[a].id = swapchain_state.id
        /\ log[b].ev = "create_render_pass" /\ log[b].id = render_pass_state
        /\ log[c].ev = "create_framebuffer_state" /\ log[c].id = framebuffer_state.id

\* The objects the call destroyed are not the ones the renderer holds now.
NewIdentities ==
    \A k \in Calls :
        /\ log[k].ev = "destroy_swapchain" => log[k].id # swapchain_state.id
        /\ log[k].ev = "destroy_render_pass" => log[k].id # render_pass_state
        /\ log[k].ev = "destroy_framebuffer" => log[k].id # framebuffer_state.id

AcquiresOnlyAfterRebuild ==
    /\ log[1].ev \in {"wait_idle", "wait_idle_failed"}
    /\ \A k \in Calls :
            log[k].ev \in {"acquire_image", "acquire_image_failed"} =>
                /\ RebuiltBefore(k)
                /\ NewIdentities
                /\ log[k].id = swapchain_state.id

RebuildSucceeded == Logged("create_viewport")

FenceCallFailed == Logged("wait_for_fence_failed") \/ Logged("reset_fence_failed")

\* C5 as stated: after a call whose acquisition failed, the next call replaces
\* swapchain, render pass and framebuffers (new identities) before any new
\* acquisition, and returns no error whenever the rebuild succeeded.
C5_RebuildThenNoError ==
    after_failed_acquire =>
        /\ AcquiresOnlyAfterRebuild
        /\ RebuildSucceeded => result = "Ok"

\* C5, amended: after a call whose acquisition failed, the next call replaces
\* swapchain, render pass and framebuffers (new identities) before any new
\* acquisition, and returns no error when the rebuild succeeded and the fence
\* wait and the fence reset of that call did not fail.
C5_RebuildThenNoErrorUnlessFenceFails ==
    after_failed_acquire =>
        /\ AcquiresOnlyAfterRebuild
        /\ (RebuildSucceeded /\ ~FenceCallFailed) => result = "Ok"

\* A frame that was drawn in full on a swapchain, a render pass and a
\* framebuffer state newer than the first ones.
C5_Witness ==
    /\ after_failed_acquire
    /\ Logged("create_swapchain")
    /\ Logged("present")
    /\ result = "Ok"
    /\ swapchain_state.id > 1 /\ render_pass_state > 1 /\ framebuffer_state.id > 1

-----------------------------------------------------------------------------
(* Disposal *)

\* C6: disposal first waits for the device to become idle, then tears down the
\* frame resource pool (FramebufferState), then the render pass, then the
\* swapchain, in exactly that order.
C6_DisposalOrder ==
    Disposed =>
        /\ log[1].ev = "wait_idle"
        /\ \A j, k \in Calls :
                \/ (log[j].ev \in PoolTeardownCalls /\ log[k].ev = "destroy_render_pass")
                \/ (log[j].ev = "destroy_render_pass" /\ log[k].ev = "destroy_swapchain")
                => j < k

\* C7: at disposal every per-image fence has been waited on before any
\* semaphore, any framebuffer or the swapchain is destroyed, and the disposal
\* runs to its end when no fence wait fails.
C7_FencesWaitedBeforeDestroy ==
    /\ Disposed =>
            \A k \in Calls :
                log[k].ev \in {"destroy_acquire_semaphore", "destroy_present_semaphore",
                               "destroy_framebuffer", "destroy_swapchain"} =>
                    \A i \in Images :
                        \E j \in 1 .. (k - 1) : log[j].ev = "wait_for_fence" /\ log[j].idx = i
    /\ (LastCallIsDrop /\ ~Logged("wait_for_fence_failed")) => Disposed

-----------------------------------------------------------------------------
(* Failed recreation *)

RecreationFailures ==
    {<< "wait_idle_failed", ErrWaitIdle >>,
     << "create_swapchain_failed", ErrSwapchain >>,
     << "create_render_pass_failed", ErrRenderPass >>,
     << "create_framebuffer_state_failed", ErrFramebuffer >>}

FrameCalls == {"acquire_image", "acquire_image_failed", "submit", "present", "present_failed"}

\* C8: when the device-idle wait or the creation of the swapchain, the render
\* pass or the framebuffer state fails in the recreation at the top of
\* draw_clear_frame, the call returns that error, makes no acquire, submit or
\* present, and recreate_swapchain stays set (the state does not become Ready).
C8_FailedRecreationIsReturned ==
    \A f \in RecreationFailures :
        Logged(f[1]) =>
            /\ result = f[2]
            /\ recreate_swapchain
            /\ \A k \in Calls : log[k].ev \notin FrameCalls

\* The creation of the framebuffer state failed, after a swapchain and a render
\* pass had been created in the same call.
C8_Witness ==
    /\ Logged("create_framebuffer_state_failed")
    /\ Logged("create_render_pass")
    /\ result = ErrFramebuffer

-----------------------------------------------------------------------------
(* Semaphores and fences of a frame *)

\* C9: the submission waits on the acquire semaphore of the call's slot, the
\* one handed to the acquisition earlier in the call, and the present waits
\* on the present semaphore of the same slot, which the submission made earlier
\* in the call signals: no wait is on a semaphore that nothing signals.
C9_SemaphoresOfTheSlot ==
    \A k \in Calls :
        /\ log[k].ev = "submit" =>
                \E a, j \in 1 .. (k - 1) :
                    /\ a < j
                    /\ log[a].ev = "advance_semaphore_index"
                    /\ log[a].id = log[k].fb /\ log[a].idx = log[k].sem
                    /\ log[j].ev = "acquire_image"
                    /\ log[j].fb = log[k].fb /\ log[j].sem = log[k].sem
                    /\ log[k].sig = log[k].sem
        /\ log[k].ev \in {"present", "present_failed"} =>
                \E j \in 1 .. (k - 1) :
                    /\ log[j].ev = "submit"
                    /\ log[j].fb = log[k].fb /\ log[j].sig = log[k].sem

\* A frame presented with the semaphores of a slot whose index differs from the
\* index of the acquired image.
C9_Witness ==
    \E j, k \in Calls :
        /\ j < k
        /\ log[j].ev = "submit" /\ log[k].ev = "present"
        /\ log[j].sem # log[j].idx
        /\ log[k].sem = log[j].sig

RECURSIVE SumUpTo(_, _)
SumUpTo(f, i) == IF i < 0 THEN 0 ELSE f[i] + SumUpTo(f, i - 1)

\* The wait+reset pairs of the last call are one pair, on the fence of the
\* image the call acquired.
OnePairOnAcquiredImage ==
    \E a, w \in Calls :
        /\ log[a].ev = "acquire_image"
        /\ a < w
        /\ log[w].ev = "wait_for_fence" /\ log[w].idx = log[a].idx
        /\ log[w + 1].ev = "reset_fence" /\ log[w + 1].idx = log[a].idx
        /\ \A k \in Calls : log[k].ev = "reset_fence" => k = w + 1

NothingRecordedWhilePending ==
    \A k \in Calls : log[k].ev \in {"begin", "begin_render_pass_inline"} => ~log[k].busy

\* C10 as stated: after exactly NumImages consecutive successful calls on a
\* fresh framebuffer state every fence was waited on and reset exactly once, and
\* no command buffer was recorded while a submission using it was pending.
C10_EveryFenceOnce ==
    (phase = "running" /\ streak = NumImages) =>
        /\ \A i \in Images : fence_resets[i] = 1
        /\ NothingRecordedWhilePending

\* C10, amended: after k <= NumImages consecutive successful calls on a fresh
\* framebuffer state there were exactly k wait+reset pairs, one per call and on
\* the fence of the image that call acquired (so after NumImages calls every
\* fence exactly once when the acquired indices were pairwise distinct), and no
\* command buffer was recorded while a submission using it was pending.
C10_OnePairPerFrame ==
    (phase = "running" /\ streak \in 1 .. NumImages) =>
        /\ SumUpTo(fence_resets, NumImages - 1) = streak
        /\ OnePairOnAcquiredImage
        /\ (streak = NumImages /\ \A i \in Images : fence_resets[i] <= 1)
                => \A i \in Images : fence_resets[i] = 1
        /\ NothingRecordedWhilePending

\* NumImages frames in a row on a fresh framebuffer state, each on another image.
C10_Witness ==
    /\ phase = "running"
    /\ streak = NumImages
    /\ \A i \in Images : fence_resets[i] = 1
    /\ Logged("present")

-----------------------------------------------------------------------------
(* Command buffer reuse *)

-----------------------------------------------------------------------------
(* Semaphores across a recreation, and a failed fence wait *)

\* The semaphores destroyed by the last call: (framebuffer state, kind, slot).
SemaphoresDestroyed ==
    {<< log[k].id, log[k].ev, log[k].idx >> :
        k \in {c \in Calls : log[c].ev \in {"destroy_acquire_semaphore",
                                            "destroy_present_semaphore"}}}

\* C19 as stated: the acquire and present semaphores of every slot keep their
\* identity across a swapchain recreation in which the image count does not
\* change, so such a recreation destroys no semaphore.
C19_SemaphoresKeptAcrossRecreation ==
    RebuildSucceeded => SemaphoresDestroyed = {}

\* C19, amended: a swapchain recreation that succeeds destroys the acquire and
\* the present semaphore of every slot of the old frame resources, although
\* the image count has not changed, and the frame resources in place after
\* it, semaphores included, are those created from the new swapchain; a
\* submission that follows in the same call uses the new ones.
C19_SemaphoresRecreated ==
    RebuildSucceeded =>
        \E old \in 1 .. created :
            /\ old # framebuffer_state.id
            /\ SemaphoresDestroyed =
                    {old} \X {"destroy_acquire_semaphore", "destroy_present_semaphore"}
                          \X Images
            /\ framebuffer_state.id = swapchain_state.id
            /\ \A k \in Calls :
                    /\ log[k].ev = "create_framebuffer_state" => log[k].id = framebuffer_state.id
                    /\ log[k].ev = "submit" => log[k].fb = framebuffer_state.id

\* A frame whose recreation succeeded and which went on to submit: the
\* semaphores of the slot it uses were destroyed with the old frame resources
\* earlier in the call.
C19_Witness ==
    /\ RebuildSucceeded
    /\ phase = "running"
    /\ \E k \in Calls :
        /\ log[k].ev = "submit"
        /\ log[k].fb = framebuffer_state.id
        /\ \E old \in 1 .. created :
            /\ old # log[k].fb
            /\ << old, "destroy_acquire_semaphore", log[k].sem >> \in SemaphoresDestroyed
            /\ << old, "destroy_present_semaphore", log[k].sig >> \in SemaphoresDestroyed

\* The failed fence waits of the last call that are the wait of
\* draw_clear_frame on the fence of the image it acquired.
FailedFrameWaits ==
    {k \in Calls : /\ log[k].ev = "wait_for_fence_failed"
                   /\ \E j \in 1 .. (k - 1) : log[j].ev = "acquire_image"}

\* The failed fence waits of the last call that belong to the teardown of
\* frame resources.
FailedTeardownWaits ==
    {k \in Calls : log[k].ev = "wait_for_fence_failed"} \ FailedFrameWaits

\* C20 as stated: a failure of the wait on the acquired image's fence in
\* draw_clear_frame is fatal as in the teardown of the frame resources: the
\* process aborts, the call does not return and the renderer is not used again.
C20_FrameFenceWaitFailureAborts ==
    FailedFrameWaits # {} => phase = "panicked" /\ result = PanicWaitFence

\* C20, amended: a failure of the wait on the acquired image's fence in
\* draw_clear_frame ends the call at once with the fence-wait error returned
\* to the caller, nothing is reset, recorded, submitted or presented, and the
\* renderer can be used again; only a failed fence wait in the teardown of
\* frame resources aborts the process.
C20_FrameFenceWaitFailureReturned ==
    /\ \A k \in FailedFrameWaits :
        /\ k = Len(log)
        /\ log[k].id = framebuffer_state.id
        /\ result = ErrWaitFence
        /\ phase = "running"
        /\ ~recreate_swapchain
    /\ \A k \in FailedTeardownWaits :
        /\ k = Len(log)
        /\ result = PanicWaitFence
        /\ phase = "panicked"

\* A frame acquired an image and the wait on its fence failed: the call
\* returned the error and the renderer is still running.
C20_Witness ==
    /\ FailedFrameWaits # {}
    /\ result = ErrWaitFence
    /\ phase = "running"
    /\ ~Logged("reset_fence")
    /\ ~Logged("submit")

-----------------------------------------------------------------------------
(* The recreation: zero extent, order of destruction and creation *)

RecreationSteps ==
    << "wait_idle", "destroy_swapchain", "create_swapchain", "create_render_pass",
       "destroy_render_pass", "take_backbuffer", "create_framebuffer_state",
       "create_viewport" >>

IsRecreationStep(e) == \E s \in 1 .. Len(RecreationSteps) : e.ev = RecreationSteps[s]

\* The recreation steps the last call took, in the order it took them.
RecreationStepsTaken ==
    LET steps == SelectSeq(log, IsRecreationStep)
    IN  [s \in 1 .. Len(steps) |-> steps[s].ev]

CreateCalls == {"create_swapchain", "create_render_pass", "create_framebuffer_state"}

\* C22 as stated: a recreation waits for the device to be idle first, then
\* destroys the old swapchain, render pass and frame resources, and creates
\* the new swapchain, render pass and frame resources only after all three old
\* objects are destroyed.
C22_DestroyAllBeforeCreate ==
    ~LastCallIsDrop =>
        \A j, k \in Calls :
            log[j].ev \in DestroyCalls /\ log[k].ev \in CreateCalls => j < k

\* C22, amended: a recreation waits for the device to be idle first, then
\* destroys the old swapchain and creates the new one, then creates the new
\* render pass and destroys the old one, then takes the backbuffer, creates
\* the new frame resources and tears the old ones down; each old object is
\* destroyed only after the wait, and the old render pass and the old frame
\* resources only after their replacements are created.
C22_RecreationInterleaves ==
    ~LastCallIsDrop =>
        /\ Len(RecreationStepsTaken) <= Len(RecreationSteps)
        /\ \A s \in 1 .. Len(RecreationStepsTaken) :
                RecreationStepsTaken[s] = RecreationSteps[s]
        /\ \A k \in Calls :
                log[k].ev \in PoolTeardownCalls =>
                    /\ \E j \in 1 .. (k - 1) :
                            log[j].ev = "create_framebuffer_state" /\ log[k].id < log[j].id
                    /\ \A j \in 1 .. (k - 1) : log[j].ev # "create_viewport"
        /\ \A j, k \in Calls :
                \/ (log[j].ev = "destroy_swapchain" /\ log[k].ev = "create_swapchain")
                \/ (log[j].ev = "destroy_render_pass" /\ log[k].ev = "create_render_pass")
                => log[j].id < log[k].id

\* A recreation that ran to its end: the new render pass was created before
\* the old one was destroyed, and the old fences were destroyed after the new
\* frame resources were created.
C22_Witness ==
    /\ RebuildSucceeded
    /\ \E j, k \in Calls :
        /\ j < k
        /\ log[j].ev = "create_render_pass"
        /\ log[k].ev = "destroy_render_pass"
        /\ log[k].id < log[j].id
    /\ \E j, k \in Calls :
        /\ j < k
        /\ log[j].ev = "create_framebuffer_state"
        /\ log[k].ev = "destroy_fence"
        /\ log[k].id < log[j].id

\* The last call began with a recreation.
BeganWithRecreation ==
    /\ log # << >>
    /\ log[1].ev \in {"wait_idle", "wait_idle_failed"}

\* C23: a recreation creates the swapchain, then the render pass, then the
\* frame resources, then the viewport, each only when the ones before it were
\* created; the recreate flag is cleared only when all four were created, and
\* a recreation that failed leaves it set.
C23_CreationOrderThenReady ==
    BeganWithRecreation =>
        /\ \A k \in Calls :
            /\ log[k].ev = "create_render_pass" =>
                    \E j \in 1 .. (k - 1) :
                        log[j].ev = "create_swapchain" /\ log[j].id = log[k].id
            /\ log[k].ev = "create_framebuffer_state" =>
                    \E j \in 1 .. (k - 1) :
                        log[j].ev = "create_render_pass" /\ log[j].id = log[k].id
            /\ log[k].ev = "create_viewport" =>
                    \E j \in 1 .. (k - 1) :
                        log[j].ev = "create_framebuffer_state" /\ log[j].id = log[k].id
        /\ ~recreate_swapchain =>
                /\ RebuildSucceeded
                /\ swapchain_state.id = created
                /\ render_pass_state = created
                /\ framebuffer_state.id = created
                /\ viewport = created
        /\ ~RebuildSucceeded => recreate_swapchain /\ result \in Errors \cup Panics
        /\ RebuildSucceeded /\ recreate_swapchain =>
                Logged("acquire_image_failed") \/ Logged("present_failed")

\* A recreation created the four objects and the frame went on to present:
\* the flag is clear.
C23_Witness ==
    /\ BeganWithRecreation
    /\ RebuildSucceeded
    /\ ~recreate_swapchain
    /\ viewport = created
    /\ created > 1
    /\ Logged("present")

-----------------------------------------------------------------------------
(* Teardown of the frame resources *)

\* A call of the teardown of a FramebufferState: one of its destroy calls, or a
\* fence wait that is not the wait of draw_clear_frame on an acquired image.
IsTeardownCall(k) ==
    \/ log[k].ev \in PoolTeardownCalls
    \/ /\ log[k].ev \in {"wait_for_fence", "wait_for_fence_failed"}
       /\ \A j \in 1 .. (k - 1) : log[j].ev # "acquire_image"

\* The teardown calls of the last call, in the order they were made.
TeardownCalls ==
    LET ks == {k \in Calls : IsTeardownCall(k)}
        Nth(n) == CHOOSE k \in ks : Cardinality({j \in ks : j <= k}) = n
    IN  [n \in 1 .. Cardinality(ks) |-> log[Nth(n)]]

\* The calls Drop for FramebufferState makes when no wait fails: call and index.
TeardownOrder ==
    [p \in 1 .. 8 * NumImages |->
        IF p <= 2 * NumImages
        THEN << IF p % 2 = 1 THEN "wait_for_fence" ELSE "destroy_fence", (p - 1) \div 2 >>
        ELSE IF p <= 4 * NumImages
        THEN << IF p % 2 = 1 THEN "free_command_buffers" ELSE "destroy_command_pool",
                (p - 2 * NumImages - 1) \div 2 >>
        ELSE IF p <= 5 * NumImages THEN << "destroy_acquire_semaphore", p - 4 * NumImages - 1 >>
        ELSE IF p <= 6 * NumImages THEN << "destroy_present_semaphore", p - 5 * NumImages - 1 >>
        ELSE IF p <= 7 * NumImages THEN << "destroy_framebuffer", p - 6 * NumImages - 1 >>
        ELSE << "destroy_image_view", p - 7 * NumImages - 1 >>]

\* Every fence had been waited on before call k.
AllFencesWaitedBefore(k) ==
    \A i \in Images :
        \E j \in 1 .. (k - 1) : IsTeardownCall(j) /\ log[j].ev = "wait_for_fence" /\ log[j].idx = i

\* C24 as stated: the teardown of the frame resources waits on every fence,
\* then destroys every fence, then frees the command buffers of and destroys
\* each command pool, then destroys every acquire and present semaphore, then
\* every framebuffer, then every image view; nothing of a later phase, the
\* fences included, is destroyed before every fence has been waited on.
C24_TeardownInStrictPhases ==
    \A k \in Calls : log[k].ev \in PoolTeardownCalls => AllFencesWaitedBefore(k)

\* C24, amended: the teardown waits on and then destroys each fence in turn,
\* then frees the command buffers of and destroys each command pool, then
\* destroys every acquire semaphore, every present semaphore, every
\* framebuffer and every image view; no command pool, semaphore, framebuffer
\* or image view is destroyed before every fence has been waited on, a failed
\* wait ends the teardown, and no image is destroyed.
C24_TeardownFenceByFence ==
    /\ Len(TeardownCalls) <= 8 * NumImages
    /\ \A p \in 1 .. Len(TeardownCalls) :
        /\ TeardownCalls[p].idx = TeardownOrder[p][2]
        /\ TeardownCalls[p].id = TeardownCalls[1].id
        /\ \/ TeardownCalls[p].ev = TeardownOrder[p][1]
           \/ /\ TeardownCalls[p].ev = "wait_for_fence_failed"
              /\ TeardownOrder[p][1] = "wait_for_fence"
              /\ p = Len(TeardownCalls)
              /\ phase = "panicked"
    /\ ~Logged("wait_for_fence_failed") => Len(TeardownCalls) \in {0, 8 * NumImages}
    /\ \A k \in Calls :
            log[k].ev \in PoolTeardownCalls \ {"destroy_fence"} => AllFencesWaitedBefore(k)
    /\ \A k \in Calls : log[k].ev # "destroy_image"

\* A teardown that ran to its end: the first fence was destroyed before the
\* last fence was waited on.
C24_Witness ==
    /\ Len(TeardownCalls) = 8 * NumImages
    /\ \E j, k \in Calls :
        /\ j < k
        /\ log[j].ev = "destroy_fence" /\ log[j].idx = 0
        /\ log[k].ev = "wait_for_fence" /\ log[k].idx = NumImages - 1
        /\ log[k].id = log[j].id
    /\ TeardownCalls[8 * NumImages].ev = "destroy_image_view"

-----------------------------------------------------------------------------
(* The recreate flag, the semaphore slot, the submissions in flight *)

\* The last call was a draw_clear_frame.
LastCallIsDraw == log # << >> /\ ~LastCallIsDrop

\* C25: the recreate flag is clear after construction; a draw_clear_frame that
\* found it clear leaves it set exactly when its acquisition or its present
\* failed; a draw_clear_frame that found it set leaves it set when the
\* recreation failed, and otherwise clears it at the top and leaves it set
\* again exactly when its own acquisition or present failed; nothing else
\* the device does changes it.
C25_RecreateFlag ==
    /\ result = "New" => ~recreate_swapchain
    /\ LastCallIsDraw =>
        recreate_swapchain <=>
            \/ Logged("acquire_image_failed")
            \/ Logged("present_failed")
            \/ BeganWithRecreation /\ ~RebuildSucceeded

\* A frame that found the flag clear and whose present failed: the flag is set
\* and the call returned Ok.
C25_Witness ==
    /\ LastCallIsDraw
    /\ ~BeganWithRecreation
    /\ Logged("present_failed")
    /\ recreate_swapchain
    /\ result = "Ok"

\* The calls of advance_semaphore_index in the last call.
SlotAdvances == {k \in Calls : log[k].ev = "advance_semaphore_index"}

\* The recreation of the last call failed.
RecreationFailed == BeganWithRecreation /\ ~RebuildSucceeded

\* C26 as stated: the semaphore slot advances once in every draw_clear_frame.
C26_SlotAdvancesInEveryFrame ==
    LastCallIsDraw => Cardinality(SlotAdvances) = 1

\* The slot after a draw_clear_frame that advanced it: the value returned and
\* used for the acquisition is the value advance_semaphore_index found, and
\* the slot is that value plus one modulo the number of images, whichever
\* image was acquired and whether or not the acquisition succeeded.
SlotAfterFrame ==
    /\ framebuffer_state.next_semaphore_index \in 0 .. (NumImages - 1)
    /\ LastCallIsDraw =>
        /\ Cardinality(SlotAdvances) = (IF RecreationFailed THEN 0 ELSE 1)
        /\ \A k \in SlotAdvances :
            /\ log[k].id = framebuffer_state.id
            /\ framebuffer_state.next_semaphore_index = (log[k].idx + 1) % NumImages
            /\ RebuildSucceeded => log[k].idx = 0
            /\ \A a \in Calls :
                    log[a].ev \in {"acquire_image", "acquire_image_failed"} =>
                        a = k + 1 /\ log[a].sem = log[k].idx
            /\ result \notin Panics => k + 1 \in Calls

\* One step of the renderer: the slot changes only by a call that advanced it,
\* and the value that call returned is the one the slot held before it unless
\* the call made new frame resources.
SlotStep ==
    LET before == framebuffer_state.next_semaphore_index
        after == framebuffer_state'.next_semaphore_index
        advances == {k \in 1 .. Len(log') : log'[k].ev = "advance_semaphore_index"}
    IN  /\ after # before \/ framebuffer_state'.id # framebuffer_state.id =>
                advances # {} /\ log'[1].ev \notin {"destroy_swapchain", "destroy_render_pass"}
        /\ framebuffer_state'.id = framebuffer_state.id =>
                \/ after = before
                \/ /\ after = (before + 1) % NumImages
                   /\ \A k \in advances : log'[k].idx = before

\* C26, amended: advance_semaphore_index returns the slot held before the call
\* and sets the slot to that value plus one modulo the number of images; the
\* slot is always in [0, number of images); it advances exactly once in every
\* draw_clear_frame that gets past the recreation, independently of the image
\* acquired, not at all in one whose recreation fails, and a recreation that
\* succeeds restarts it at 0 before the advance.
C26_SlotAdvancesOncePastRecreation ==
    /\ []SlotAfterFrame
    /\ [][SlotStep]_vars

\* A frame without recreation that found the slot at its last value, acquired
\* image 0 and advanced the slot round to 0.
C26_Witness ==
    /\ LastCallIsDraw
    /\ ~BeganWithRecreation
    /\ framebuffer_state.next_semaphore_index = 0
    /\ \E k \in SlotAdvances : log[k].idx = NumImages - 1
    /\ \E a \in Calls : log[a].ev = "acquire_image" /\ log[a].idx = 0

\* The submissions the device has not completed.
UnfinishedSubmissions == {k \in 1 .. Len(queue) : queue[k].kind = "submit"}

\* The unfinished submissions that use the resources of image i.
UnfinishedOn(i) == {k \in UnfinishedSubmissions : queue[k].img = i}

\* C27: at every moment the framebuffer, command pool, command buffer and
\* fence of each image are referenced by at most one submission the device
\* has not completed, so there are never more unfinished submissions than
\* images.
C27_OneSubmissionPerImage ==
    /\ \A i \in Images : Cardinality(UnfinishedOn(i)) <= 1
    /\ \A k \in UnfinishedSubmissions :
            /\ queue[k].fb = framebuffer_state.id
            /\ queue[k].fence = queue[k].img
            /\ ~framebuffer_state.in_flight_fences[queue[k].img]
    /\ Cardinality(UnfinishedSubmissions) <= NumImages

\* Every image has a submission the device has not completed.
C27_Witness ==
    /\ phase = "running"
    /\ \A i \in Images : Cardinality(UnfinishedOn(i)) = 1
    /\ Logged("submit")

-----------------------------------------------------------------------------
(* Command buffer lists, the backbuffer, the viewport *)

\* C28: between calls the command buffer list of each image holds at most one
\* command buffer: none until a frame has rendered to the image, exactly one
\* after; and at most one command buffer is ever allocated from the command
\* pool of an image while its frame resources live.
C28_OneCommandBufferPerImage ==
    /\ \A i \in Images :
        /\ Len(framebuffer_state.command_buffer_lists[i]) <= 1
        /\ Len(framebuffer_state.command_buffer_lists[i]) = framebuffer_state.allocated[i]
    /\ result = "New" \/ (RebuildSucceeded /\ ~Logged("push")) =>
            \A i \in Images : framebuffer_state.command_buffer_lists[i] = << >>
    /\ \A k \in Calls :
        /\ log[k].ev = "push" /\ log[k].fb = framebuffer_state.id =>
                framebuffer_state.command_buffer_lists[log[k].idx] = << log[k].cb >>
        /\ log[k].ev = "acquire_command_buffer" =>
                /\ framebuffer_state.allocated[log[k].idx] = 1
                /\ ~Logged("pop")
        /\ log[k].ev = "pop" => ~Logged("acquire_command_buffer")

\* The second frame on an image took the buffer from the list and put it
\* back, while no frame has rendered to another image yet.
C28_Witness ==
    /\ \E k \in Calls :
        /\ log[k].ev = "pop"
        /\ framebuffer_state.allocated[log[k].idx] = 1
        /\ Len(framebuffer_state.command_buffer_lists[log[k].idx]) = 1
    /\ \E i \in Images : framebuffer_state.command_buffer_lists[i] = << >>
    /\ Logged("push")

\* The calls of take_backbuffer in the last call.
BackbufferTakes == {k \in Calls : log[k].ev = "take_backbuffer"}

\* C29 as stated: every swapchain has its backbuffer taken exactly once, so
\* that no swapchain is left holding it and none is asked for it twice.
C29_EverySwapchainGivesBackbuffer ==
    /\ result # PanicNoBackbuffer
    /\ Cardinality(BackbufferTakes) <= 1
    /\ swapchain_state.id # 0 => ~swapchain_state.backbuffer

\* C29, amended: the backbuffer is taken out of a swapchain only by the frame
\* resources built for it, in the call that created the swapchain, and once;
\* the swapchain the frame resources were built from has given it away; a
\* swapchain still holds its backbuffer only after a recreation that failed
\* before the frame resources were built; and no sequence of draw_clear_frame
\* calls takes it from a swapchain that has none, which would panic.
C29_BackbufferTakenOnce ==
    /\ result # PanicNoBackbuffer
    /\ Cardinality(BackbufferTakes) <= 1
    /\ \A k \in BackbufferTakes :
        /\ log[k].id = created
        /\ \E j \in 1 .. (k - 1) : log[j].ev = "create_swapchain" /\ log[j].id = log[k].id
        /\ swapchain_state.id = log[k].id /\ ~swapchain_state.backbuffer
    /\ swapchain_state.id # 0 /\ framebuffer_state.id = swapchain_state.id =>
            ~swapchain_state.backbuffer
    /\ swapchain_state.backbuffer =>
            /\ result \in Errors
            /\ recreate_swapchain
            /\ framebuffer_state.id # swapchain_state.id
    /\ RebuildSucceeded => BackbufferTakes # {}

\* A second recreation succeeded: the backbuffer of the third swapchain was
\* taken in the call that created it.
C29_Witness ==
    /\ RebuildSucceeded
    /\ created > 1
    /\ \E k \in BackbufferTakes : log[k].id = swapchain_state.id
    /\ ~swapchain_state.backbuffer
    /\ framebuffer_state.id = swapchain_state.id
    /\ phase = "running"

-----------------------------------------------------------------------------
(* Surface queries *)

IsSurfaceQuery(e) == \E q \in 1 .. Len(SurfaceQueries) : e.ev = SurfaceQueries[q]

SurfaceQueryCalls == {k \in Calls : IsSurfaceQuery(log[k])}

\* the draw_clear_frame calls of one frame, from the slot to the present
FrameSteps ==
    {"advance_semaphore_index", "acquire_image", "acquire_image_failed", "wait_for_fence",
     "wait_for_fence_failed", "reset_fence", "reset_fence_failed", "command_pool_reset",
     "pop", "acquire_command_buffer", "begin", "begin_render_pass_inline", "submit", "push",
     "present", "present_failed"}

\* C31: the surface's capabilities, its supported formats and the size of the
\* window are asked for only while a swapchain is being created, that is in a
\* recreation, after the old swapchain was destroyed and directly before
\* create_swapchain; a draw_clear_frame call that begins with the recreate flag
\* clear asks for none of them, and no call asks during the frame itself.
C31_QueriesOnlyInRecreation ==
    /\ SurfaceQueryCalls # {} => BeganWithRecreation /\ ~LastCallIsDrop
    /\ log # << >> /\ log[1].ev = "advance_semaphore_index" => SurfaceQueryCalls = {}
    /\ \A k \in SurfaceQueryCalls :
        /\ \E j \in 1 .. (k - 1) : log[j].ev = "destroy_swapchain"
        /\ \A j \in 1 .. (k - 1) : log[j].ev \notin FrameSteps
        /\ \E j \in (k + 1) .. Len(log) :
            /\ log[j].ev \in {"create_swapchain", "create_swapchain_failed"}
            /\ \A i \in (k + 1) .. (j - 1) : IsSurfaceQuery(log[i])
    /\ Cardinality(SurfaceQueryCalls) \in {0, Len(SurfaceQueries)}
    /\ (Logged("create_swapchain") \/ Logged("create_swapchain_failed")) =>
            SurfaceQueryCalls # {}

\* A call recreated the swapchain, asking the surface and the window, and went
\* on to draw and present a frame without asking again.
C31_Witness ==
    /\ RebuildSucceeded
    /\ Cardinality(SurfaceQueryCalls) = Len(SurfaceQueries)
    /\ Logged("present")
    /\ result = "Ok"

-----------------------------------------------------------------------------
(* Blocking calls.  A call is one action: a wait that the device's progress
   ends is taken to its end inside the action (BlockOnFence, wait_idle), and
   a wait that no progress of the device can end gives the result Hang. *)

\* the waits of the last call that can block without bound
BlockingCalls == {k \in Calls : log[k].ev \in {"wait_idle", "wait_for_fence"}}

\* the wait of draw_clear_frame on the fence of the image it acquired
IsFrameWait(k) ==
    /\ log[k].ev = "wait_for_fence"
    /\ k > 1
    /\ log[k - 1].ev = "acquire_image"
    /\ log[k - 1].idx = log[k].idx

\* a wait of Drop for FramebufferState: the fence is destroyed right after it
IsDropWait(k) ==
    /\ log[k].ev = "wait_for_fence"
    /\ k < Len(log)
    /\ log[k + 1].ev = "destroy_fence"
    /\ log[k + 1].idx = log[k].idx

\* fence i of the current frame resources is signaled, or a submission in the
\* device queue, made for image i, signals it
FenceSignaledOrPending(i) ==
    \/ framebuffer_state.in_flight_fences[i]
    \/ \E o \in Ops(queue) :
            o.kind = "submit" /\ o.fb = framebuffer_state.id /\ o.img = i /\ o.fence = i

\* C32 as stated: a draw_clear_frame call blocks nowhere but in the
\* acquisition and in the wait on the fence of the acquired image.
C32_OnlyFrameWaitBlocks ==
    LastCallIsDraw => \A k \in BlockingCalls : IsFrameWait(k)

\* C32, amended: every draw_clear_frame call returns when the device completes
\* what was submitted to it.  It blocks in the acquisition, in the wait on the
\* fence of the acquired image and, when it recreates the swapchain, in
\* wait_idle and in the fence waits of the frame resources it drops, which
\* come after wait_idle and find every fence signaled.  The fence of the
\* acquired image is signaled or is signaled by a submission made for that
\* image that is still in the device queue, so no wait is without end.
C32_DrawReturns ==
    /\ result # Hang
    /\ phase # "hung"
    /\ LastCallIsDraw =>
        \A k \in BlockingCalls :
            \/ IsFrameWait(k)
            \/ log[k].ev = "wait_idle" /\ k = 1
            \/ /\ IsDropWait(k)
               /\ ~log[k].busy
               /\ log[1].ev = "wait_idle"
               /\ \A j \in 1 .. (k - 1) : log[j].ev # "acquire_image"
    /\ phase = "running" => \A i \in Images : FenceSignaledOrPending(i)

\* A call waited on the fence of the image it acquired while the submission
\* that signals the fence was still in the device queue, and drew the frame.
C32_Witness ==
    /\ result = "Ok"
    /\ Logged("present")
    /\ \E k \in BlockingCalls : IsFrameWait(k) /\ log[k].busy

-----------------------------------------------------------------------------
(* The logical device *)

\* the destroy calls of the last call that come before position k
DestroyedBefore(k, ev) == {j \in 1 .. (k - 1) : log[j].ev = ev}

-----------------------------------------------------------------------------
(* What a frame is drawn with.  A render pass and a FramebufferState carry
   the id of the swapchain they were built from: the render pass has that
   swapchain's format, the framebuffers its image views and its extent. *)

AcquisitionCalls == {k \in Calls : log[k].ev \in {"acquire_image", "acquire_image_failed"}}

\* At every acquisition the render pass, the frame resources and the viewport
\* are those built from the swapchain the image is acquired from, whose extent
\* is not zero; frame resources are built with the render pass of their
\* swapchain.
BuiltFromCurrentSwapchain ==
    /\ \A k \in AcquisitionCalls :
        /\ log[k].id = swapchain_state.id
        /\ log[k].fb = log[k].id
        /\ render_pass_state = log[k].id
        /\ framebuffer_state.id = log[k].id
        /\ viewport = log[k].id
        /\ ~ZeroExtent(swapchain_state.extent)
        /\ ~swapchain_state.backbuffer
    /\ \A k \in Calls :
        log[k].ev = "create_framebuffer_state" =>
            /\ log[k].sig = log[k].id
            /\ log[k].id = swapchain_state.id
            /\ render_pass_state = log[k].id

\* A step leaves the extent of a swapchain as it was created: the extent
\* changes only when the swapchain is replaced.
SwapchainFixed ==
    swapchain_state'.id = swapchain_state.id =>
        swapchain_state'.extent = swapchain_state.extent

\* C34: whenever draw_clear_frame reaches the acquisition, the render pass was
\* built from the current swapchain, the framebuffers were built with that
\* render pass, from the backbuffer of the current swapchain and with its
\* extent; and no step changes the extent of a swapchain once it is created.
C34_FrameBuiltFromCurrentSwapchain ==
    /\ []BuiltFromCurrentSwapchain
    /\ [][SwapchainFixed]_vars

\* A call replaced the swapchain, the render pass and the frame resources and
\* then acquired an image of the new swapchain.
C34_Witness ==
    /\ RebuildSucceeded
    /\ swapchain_state.id > 1
    /\ \E k \in AcquisitionCalls : log[k].ev = "acquire_image" /\ log[k].id = swapchain_state.id

\* the resets of a fence in the last call
FenceResets == {k \in Calls : log[k].ev = "reset_fence"}

\* C37: when draw_clear_frame has returned, with Ok or with an error, every
\* fence of the frame resources is signaled or is signaled by a submission
\* that is in the device queue; a fence is reset only in a call that then
\* submits with it; and the fence waits of a later drop or recreation all
\* come to an end.
C37_NoFenceLeftReset ==
    /\ LastCallIsDraw /\ (result = "Ok" \/ result \in Errors) =>
            \A i \in Images : FenceSignaledOrPending(i)
    /\ \A k \in FenceResets :
            \E j \in (k + 1) .. Len(log) :
                /\ log[j].ev = "submit"
                /\ log[j].id = log[k].id
                /\ log[j].idx = log[k].idx
    /\ \A k \in Calls : IsDropWait(k) => result # Hang
    /\ LastCallIsDrop => result \in {"Dropped", PanicWaitFence}

\* The renderer was dropped while a submission was in the device queue: the
\* wait on its fence blocked, came to an end, and the drop ran to its end.
C37_Witness ==
    /\ Disposed
    /\ \E k \in Calls : IsDropWait(k) /\ log[k].busy

-----------------------------------------------------------------------------
(* The swapchain between calls *)

\* C38: between draw_clear_frame calls, also after one that returned the error
\* of a failed recreation, the renderer holds a swapchain, and no
\* draw_clear_frame call panics for want of one.
C38_SwapchainHeldBetweenCalls ==
    /\ phase = "running" => swapchain_state # NoSwapchain
    /\ result # PanicNoSwapchain

-----------------------------------------------------------------------------
(* A frame whose acquisition fails *)

AcquisitionFailed == Logged("acquire_image_failed")

\* C39 as stated: a call whose acquisition fails makes no device call but the
\* acquisition, after it took the slot.
C39_FailedAcquisitionOnlyAdvances ==
    AcquisitionFailed =>
        \A k \in Calls : log[k].ev \in {"advance_semaphore_index", "acquire_image_failed"}

\* What a call whose acquisition failed has done: it took the slot, tried to
\* acquire, set the recreate flag and returned Ok, with no other call of the
\* frame (the fence waits before it are those of the frame resources a
\* recreation dropped); it made no other device call at all unless it began
\* by recreating the swapchain, and then the recreation had succeeded and the
\* slot counter of the new frame resources stands one past its start.
AfterFailedAcquisition ==
    AcquisitionFailed =>
        /\ result = "Ok"
        /\ recreate_swapchain
        /\ Len(log) >= 2
        /\ log[Len(log) - 1].ev = "advance_semaphore_index"
        /\ log[Len(log)].ev = "acquire_image_failed"
        /\ \A k \in 1 .. (Len(log) - 2) : log[k].ev \in FrameSteps => IsDropWait(k)
        /\ \/ Len(log) = 2
           \/ /\ BeganWithRecreation
              /\ RebuildSucceeded
              /\ queue = << >>
              /\ framebuffer_state.next_semaphore_index = 1 % NumImages

\* A call that does not recreate and whose acquisition fails changes the slot
\* counter and the recreate flag and nothing else: swapchain, render pass,
\* viewport, fences, command buffer lists and the device queue are as before.
FailedAcquisitionStep ==
    /\ framebuffer_state'.next_semaphore_index # framebuffer_state.next_semaphore_index
    /\ HasEv(log', "acquire_image_failed")
    /\ log'[1].ev = "advance_semaphore_index"
    => /\ framebuffer_state' =
            [framebuffer_state EXCEPT !.next_semaphore_index = (@ + 1) % NumImages]
       /\ recreate_swapchain'
       /\ ~recreate_swapchain
       /\ UNCHANGED << swapchain_state, render_pass_state, viewport, created, queue, phase >>

\* C39, amended: a draw_clear_frame call that begins with the recreate flag
\* clear and whose acquisition fails changes nothing except that the slot
\* counter has advanced by one and the recreate flag is set; in every call
\* whose acquisition fails, also one that first recreated the swapchain, the
\* frame waits on and resets no fence, resets no command pool, allocates and
\* records no command buffer, submits nothing and presents nothing.
C39_FailedAcquisitionChangesSlotAndFlag ==
    /\ []AfterFailedAcquisition
    /\ [][FailedAcquisitionStep]_vars

\* A call recreated the swapchain and then failed to acquire an image.
C39_Witness ==
    /\ AcquisitionFailed
    /\ BeganWithRecreation
    /\ Len(log) > 2

-----------------------------------------------------------------------------
(* A frame whose acquisition succeeds *)

AcquiredAt == {k \in Calls : log[k].ev = "acquire_image"}

\* The device calls of a frame from the acquisition on, in the order
\* draw_clear_frame makes them; each entry is the set of calls that can stand
\* at that place.
FrameOrder ==
    << {"acquire_image"}, {"wait_for_fence"}, {"reset_fence"}, {"command_pool_reset"},
       {"pop", "acquire_command_buffer"}, {"begin"}, {"begin_render_pass_inline"},
       {"submit"}, {"push"}, {"present", "present_failed"} >>

\* From position a on the log is the first n calls of FrameOrder, all of them
\* on image idx.
FollowsFrameOrder(a, n, idx) ==
    /\ Len(log) >= a + n - 1
    /\ \A s \in 1 .. n :
        /\ log[a + s - 1].ev \in FrameOrder[s]
        /\ log[a + s - 1].idx = idx

SubmissionsOf(idx) == {k \in Calls : log[k].ev = "submit" /\ log[k].idx = idx}

PresentsOf(idx) ==
    {k \in Calls : log[k].ev \in {"present", "present_failed"} /\ log[k].idx = idx}

\* C40 as stated: a call that acquired an image made exactly one submission
\* for it and tried to present it.
C40_AcquiredImageAlwaysPresented ==
    \A a \in AcquiredAt :
        /\ Cardinality(SubmissionsOf(log[a].idx)) = 1
        /\ Cardinality(PresentsOf(log[a].idx)) = 1

\* C40, amended: a call acquires at most one image.  When the wait on the
\* image's fence and the reset of the fence succeed, the call makes exactly
\* one submission for the image and one attempt to present it, in the order
\* acquire, fence wait, fence reset, record, submit, present, and returns Ok.
\* When the wait or the reset fails the call returns that error, and the
\* acquired image is neither submitted nor presented.
C40_AcquireSubmitPresent ==
    /\ Cardinality(AcquiredAt) <= 1
    /\ \A a \in AcquiredAt :
        \/ /\ result = "Ok"
           /\ Len(log) = a + Len(FrameOrder) - 1
           /\ FollowsFrameOrder(a, Len(FrameOrder), log[a].idx)
           /\ Cardinality(SubmissionsOf(log[a].idx)) = 1
           /\ Cardinality(PresentsOf(log[a].idx)) = 1
        \/ /\ result = ErrWaitFence
           /\ Len(log) = a + 1
           /\ log[a + 1].ev = "wait_for_fence_failed"
           /\ log[a + 1].idx = log[a].idx
        \/ /\ result = ErrResetFence
           /\ Len(log) = a + 2
           /\ FollowsFrameOrder(a, 2, log[a].idx)
           /\ log[a + 2].ev = "reset_fence_failed"
           /\ log[a + 2].idx = log[a].idx
    /\ (Logged("submit") \/ Logged("present") \/ Logged("present_failed")) =>
            AcquiredAt # {}

\* A call recreated the swapchain, acquired an image, submitted for it and
\* presented it.
C40_Witness ==
    /\ BeganWithRecreation
    /\ \E a \in AcquiredAt :
        /\ FollowsFrameOrder(a, Len(FrameOrder), log[a].idx)
        /\ log[Len(log)].ev = "present"

-----------------------------------------------------------------------------
(* Semaphores of a slot *)

\* C36: when draw_clear_frame hands the acquire semaphore of a slot to
\* acquire_image, no queued submission that waits on that semaphore is still
\* uncompleted, and when it submits with the present semaphore of the slot, no
\* queued present that waits on that semaphore is still uncompleted.
C36_SlotSemaphoresFree ==
    \A k \in Calls :
        log[k].ev \in {"acquire_image", "acquire_image_failed", "submit"} => ~log[k].busy

-----------------------------------------------------------------------------
(* swapchain.rs: the selection functions of SwapchainState::new.  A result is
   [ok |-> TRUE, value |-> v] for Ok(v) and [ok |-> FALSE, value |-> message]
   for the Err with that message. *)

Ok(v) == [ok |-> TRUE, value |-> v]
Err(message) == [ok |-> FALSE, value |-> message]

ErrNoPresentMode == "No present modes specified."
ErrNoCompositeAlpha == "No composite alpha modes specified."
ErrEmptyFormatList == "Supported format list was empty."

\* Iterator::find over a sequence, given the positions of the elements that
\* pass the test: the first of them, 0 when there is none.
FindFirst(hits) ==
    IF hits = {} THEN 0 ELSE CHOOSE k \in hits : \A j \in hits : k <= j

\* The present modes a surface may report; the last one is none of the four
\* the renderer knows.
PresentModes == {"MAILBOX", "FIFO", "RELAXED", "IMMEDIATE", "SHARED_DEMAND_REFRESH"}

\* Faulty variant: FIFO is preferred to MAILBOX.
select_present_mode_fifo_first(present_modes) ==
    LET order == << "FIFO", "MAILBOX", "RELAXED", "IMMEDIATE" >>
        Supported(present_mode) == present_mode \in present_modes
        found == FindFirst({k \in 1 .. Len(order) : Supported(order[k])})
    IN  IF found = 0 THEN Err(ErrNoPresentMode) ELSE Ok(order[found])

select_present_mode(present_modes) ==
    LET order == << "MAILBOX", "FIFO", "RELAXED", "IMMEDIATE" >>
        Supported(present_mode) == present_mode \in present_modes
        found == FindFirst({k \in 1 .. Len(order) : Supported(order[k])})
    IN  IF found = 0 THEN Err(ErrNoPresentMode) ELSE Ok(order[found])

CompositeAlphaModes == {"OPAQUE", "PREMULTIPLIED", "POSTMULTIPLIED", "INHERIT"}

\* Faulty variant: the order of the Vulkan flag bits, with INHERIT last.
select_composite_alpha_mode_inherit_last(composite_alpha_modes) ==
    LET order == << "OPAQUE", "PREMULTIPLIED", "POSTMULTIPLIED", "INHERIT" >>
        Supported(composite_alpha_mode) == composite_alpha_mode \in composite_alpha_modes
        found == FindFirst({k \in 1 .. Len(order) : Supported(order[k])})
    IN  IF found = 0 THEN Err(ErrNoCompositeAlpha) ELSE Ok(order[found])

select_composite_alpha_mode(composite_alpha_modes) ==
    LET order == << "OPAQUE", "INHERIT", "PREMULTIPLIED", "POSTMULTIPLIED" >>
        Supported(composite_alpha_mode) == composite_alpha_mode \in composite_alpha_modes
        found == FindFirst({k \in 1 .. Len(order) : Supported(order[k])})
    IN  IF found = 0 THEN Err(ErrNoCompositeAlpha) ELSE Ok(order[found])

\* Longest list of supported formats.
MaxFormats == 2

\* All sequences over S of length at most n.
SeqsUpTo(S, n) == UNION {[1 .. k -> S] : k \in 0 .. n}

Formats == {"Rgba8Srgb", "Bgra8Srgb", "Rgba8Unorm", "Bgra8Unorm"}

\* Format::base_format: the surface type and the channel type of a format.
base_format(format) ==
    CASE format = "Rgba8Srgb" -> << "R8_G8_B8_A8", "Srgb" >>
      [] format = "Bgra8Srgb" -> << "B8_G8_R8_A8", "Srgb" >>
      [] format = "Rgba8Unorm" -> << "R8_G8_B8_A8", "Unorm" >>
      [] format = "Bgra8Unorm" -> << "B8_G8_R8_A8", "Unorm" >>

\* Option<Vec<Format>>
NoFormats == [some |-> FALSE, formats |-> << >>]
SomeFormats(formats) == [some |-> TRUE, formats |-> formats]

\* Faulty variant: the first format of the list is taken whatever its channel type.
select_format_first_of_list(supported_formats) ==
    IF ~supported_formats.some THEN Ok("Rgba8Srgb")
    ELSE IF supported_formats.formats = << >> THEN Err(ErrEmptyFormatList)
    ELSE Ok(supported_formats.formats[1])

select_format(supported_formats) ==
    LET formats == supported_formats.formats
        IsSrgb(format) == base_format(format)[2] = "Srgb"
        found == FindFirst({k \in 1 .. Len(formats) : IsSrgb(formats[k])})
    IN  IF ~supported_formats.some THEN Ok("Rgba8Srgb")
        ELSE IF found # 0 THEN Ok(formats[found])
        ELSE IF Len(formats) > 0 THEN Ok(formats[1])
        ELSE Err(ErrEmptyFormatList)

\* Largest width or height of a window or of a surface extent.
MaxDim == 2

Dims == 0 .. MaxDim

Extents == {Extent2D(w, h) : w, h \in Dims}

cmp_min(a, b) == IF b < a THEN b ELSE a
cmp_max(a, b) == IF b > a THEN b ELSE a

\* Option<Extent2D>
NoExtent == [some |-> FALSE, value |-> Extent2D(0, 0)]
SomeExtent(extent) == [some |-> TRUE, value |-> extent]

\* Faulty variant: the window size is clamped even when the surface reports a
\* current extent.
determine_extent_always_clamping(window, capabilities) ==
    Ok(Extent2D(cmp_min(capabilities.extents.end.width,
                        cmp_max(window.width, capabilities.extents.start.width)),
                cmp_min(capabilities.extents.end.height,
                        cmp_max(window.height, capabilities.extents.start.height))))

determine_extent(window, capabilities) ==
    IF capabilities.current_extent.some THEN Ok(capabilities.current_extent.value)
    ELSE Ok(Extent2D(cmp_min(capabilities.extents.end.width,
                             cmp_max(window.width, capabilities.extents.start.width)),
                     cmp_min(capabilities.extents.end.height,
                             cmp_max(window.height, capabilities.extents.start.height))))

\* Largest image count a surface supports.
MaxImageCount == 4

\* The image counts asked for: with PresentMode::MAILBOX, and otherwise.
MailboxImageCount == 3
DefaultImageCount == 2

\* Faulty variant: the preferred count is only raised to the minimum.
compute_image_count_unbounded_above(image_count, present_mode) ==
    cmp_max(image_count.start,
            IF present_mode = "MAILBOX" THEN MailboxImageCount ELSE DefaultImageCount)

compute_image_count(image_count, present_mode) ==
    cmp_min(image_count.end,
            cmp_max(image_count.start,
                    IF present_mode = "MAILBOX" THEN MailboxImageCount ELSE DefaultImageCount))

-----------------------------------------------------------------------------
(* adapter.rs and device.rs: the adapter, its queue family and the device *)

\* Longest list of adapters, of queue families of an adapter, and of queue
\* groups of an opened device.
MaxAdapters == 2
MaxFamilies == 2
MaxGroups == 2

ErrNoAdapter == "Could not find a supported graphical adapter."
ErrNoQueueFamily == "Could not find supported queue family with graphics."
ErrOpenDevice == "Could not open physical device: "
ErrNoQueueGroup == "Could not take ownership of queue group."
ErrNoQueues == "Queue group did not have any command queues available."

\* QueueType::supports_graphics
supports_graphics(queue_type) == queue_type \in {"General", "Graphics"}

\* What a queue family can be: its queue type, and whether the surface accepts
\* it (surface.supports_queue_family).  Families that neither support graphics
\* nor are accepted by the surface are left out.
FamilyKinds ==
    {[queue_type |-> "Graphics", surface |-> TRUE],
     [queue_type |-> "Graphics", surface |-> FALSE],
     [queue_type |-> "Compute", surface |-> TRUE]}

\* The queue families of an adapter: the family at position k has id k.
QueueFamilies(kinds) ==
    [k \in 1 .. Len(kinds) |->
        [id |-> k, queue_type |-> kinds[k].queue_type, surface |-> kinds[k].surface]]

QueueFamilyLists == {QueueFamilies(kinds) : kinds \in SeqsUpTo(FamilyKinds, MaxFamilies)}

\* the closure of both find calls
SupportsGraphicsOnSurface(queue_family) ==
    supports_graphics(queue_family.queue_type) /\ queue_family.surface

\* Faulty variant: any queue family with graphics will do.
select_adapter_ignoring_surface(adapters) ==
    LET HasGraphics(queue_families) ==
            \E k \in 1 .. Len(queue_families) : supports_graphics(queue_families[k].queue_type)
        found == FindFirst({k \in 1 .. Len(adapters) : HasGraphics(adapters[k])})
    IN  IF found = 0 THEN Err(ErrNoAdapter) ELSE Ok(found)

\* AdapterState::select_adapter: an adapter is its list of queue families, the
\* adapter selected is given by its position in the list.
select_adapter(adapters) ==
    LET Supported(queue_families) ==
            \E k \in 1 .. Len(queue_families) : SupportsGraphicsOnSurface(queue_families[k])
        found == FindFirst({k \in 1 .. Len(adapters) : Supported(adapters[k])})
    IN  IF found = 0 THEN Err(ErrNoAdapter) ELSE Ok(found)

take_queue_family(queue_families) ==
    LET found == FindFirst({k \in 1 .. Len(queue_families) :
                                SupportsGraphicsOnSurface(queue_families[k])})
    IN  IF found = 0 THEN Err(ErrNoQueueFamily) ELSE Ok(queue_families[found])

\* physical_device.open(&[(queue_family, &[1.0; 1])], Features::empty()): the
\* driver opens the device with the queue groups `queue_groups`, or refuses.
create_logical_device(driver, queue_family) ==
    IF driver.refuses THEN Err(ErrOpenDevice) ELSE Ok(driver.queue_groups)

\* The queue group taken is given by its position in the list.
take_queue_group(queue_groups, queue_family) ==
    LET OfFamily(queue_group) == queue_group.family = queue_family.id
        found == FindFirst({k \in 1 .. Len(queue_groups) : OfFamily(queue_groups[k])})
    IN  IF found = 0 THEN Err(ErrNoQueueGroup)
        ELSE IF queue_groups[found].queues = 0 THEN Err(ErrNoQueues)
        ELSE Ok(found)

\* The outcome of DeviceState::new, with whether the device was opened.
DeviceResult(outcome, opened) ==
    [ok |-> outcome.ok, value |-> outcome.value, opened |-> opened]

DeviceState_new_groups(queue_family, gpu) ==
    IF ~gpu.ok THEN DeviceResult(gpu, FALSE)
    ELSE LET queue_group == take_queue_group(gpu.value, queue_family)
         IN  IF ~queue_group.ok THEN DeviceResult(queue_group, TRUE)
             ELSE DeviceResult(Ok([queue_family |-> queue_family.id,
                                   queue_group |-> queue_group.value]), TRUE)

\* Faulty variant: the device is opened with the first queue family of the adapter.
DeviceState_new_first_family(queue_families, driver) ==
    IF queue_families = << >> THEN DeviceResult(Err(ErrNoQueueFamily), FALSE)
    ELSE DeviceState_new_groups(queue_families[1],
                                create_logical_device(driver, queue_families[1]))

DeviceState_new(queue_families, driver) ==
    LET queue_family == take_queue_family(queue_families)
    IN  IF ~queue_family.ok THEN DeviceResult(queue_family, FALSE)
        ELSE DeviceState_new_groups(queue_family.value,
                                    create_logical_device(driver, queue_family.value))

-----------------------------------------------------------------------------
(* The selection functions, each called once on an input the surface, the
   window or the driver can present *)

KnownPresentModes == {"MAILBOX", "FIFO", "RELAXED", "IMMEDIATE"}

\* SurfaceCapabilities.extents: a range with start <= end in width and height
ExtentRanges ==
    {[start |-> s, end |-> e] : s, e \in Extents} \cap
    {r \in [start : Extents, end : Extents] :
        r.start.width <= r.end.width /\ r.start.height <= r.end.height}

CurrentExtents == {NoExtent} \cup {SomeExtent(e) : e \in Extents}

\* SurfaceCapabilities.image_count: a range with 1 <= start <= end
ImageCountRanges ==
    {r \in [start : 1 .. MaxImageCount, end : 1 .. MaxImageCount] : r.start <= r.end}

QueueGroups == [family : 1 .. MaxFamilies, queues : 0 .. 1]

\* What physical_device.open does: it refuses, or opens the device with some
\* queue groups.
Drivers ==
    {[refuses |-> TRUE, queue_groups |-> << >>]} \cup
    {[refuses |-> FALSE, queue_groups |-> g] : g \in SeqsUpTo(QueueGroups, MaxGroups)}

Call(fn, input) == [fn |-> fn, input |-> input, done |-> FALSE, output |-> "none"]

\* Largest number of images a swapchain returns as its backbuffer.
MaxBackbufferImages == 3

\* The backbuffers a swapchain can return: one image handle per image.
Backbuffers == {[k \in 1 .. n |-> k - 1] : n \in 1 .. MaxBackbufferImages}

\* FramebufferState::create_image_views: one view for each image
create_image_views(images) == [k \in 1 .. Len(images) |-> [image |-> images[k]]]

\* FramebufferState::create_framebuffers: one framebuffer for each image view
create_framebuffers(image_views) ==
    [k \in 1 .. Len(image_views) |-> [image_view |-> image_views[k]]]

\* FramebufferState::create_fences: `number` fences, created signaled
create_fences(number) == [k \in 1 .. number |-> [signaled |-> TRUE]]

\* Faulty variant: one semaphore per frame in flight, two frames in flight.
create_semaphores_per_frame_in_flight(number) == [k \in 1 .. 2 |-> "semaphore"]

\* FramebufferState::create_semaphores: `number` semaphores
create_semaphores(number) == [k \in 1 .. number |-> "semaphore"]

\* FramebufferState::create_command_pools_and_buffers: `number` pools, each
\* pushed together with an empty list of command buffers
create_command_pools_and_buffers(number) ==
    [command_pools |-> [k \in 1 .. number |-> "command pool"],
     command_buffer_lists |-> [k \in 1 .. number |-> << >>]]

\* images.into_iter().zip(image_views.into_iter()).collect()
zip(images, image_views) ==
    [k \in 1 .. (IF Len(images) < Len(image_views) THEN Len(images) ELSE Len(image_views)) |->
        << images[k], image_views[k] >>]

\* FramebufferState::new: the vectors of the state built from the backbuffer
\* `images` (every creation succeeds)
FramebufferState_new_fields(images) ==
    [framebuffers |-> create_framebuffers(create_image_views(images)),
     frame_images |-> zip(images, create_image_views(images)),
     command_pools |-> create_command_pools_and_buffers(Len(images)).command_pools,
     command_buffer_lists |-> create_command_pools_and_buffers(Len(images)).command_buffer_lists,
     in_flight_fences |-> create_fences(Len(images)),
     acquire_semaphores |-> create_semaphores(Len(images)),
     present_semaphores |-> create_semaphores(Len(images)),
     number_of_frames |-> Len(images),
     next_semaphore_index |-> 0]

\* `value as i16` of an unsigned 32-bit value: the low 16 bits, read as a
\* two's complement number
as_i16(value) ==
    LET low == value % 65536
    IN  IF low >= 32768 THEN low - 65536 ELSE low

\* RendererState::create_viewport(extent): the rectangle of the viewport
create_viewport_rect(extent) ==
    [x |-> 0, y |-> 0, w |-> as_i16(extent.width), h |-> as_i16(extent.height)]

\* Widths and heights on both sides of the limits of 16 bits
ViewportSizes == {1, 800, 32767, 32768, 40000, 65535, 65536, 66336, 2147483647}

ViewportExtents == {Extent2D(w, h) : w, h \in ViewportSizes}

SelectionInit ==
    /\ RendererNew
    /\ \/ \E modes \in SUBSET PresentModes : sel = Call("select_present_mode", modes)
       \/ \E modes \in SUBSET CompositeAlphaModes :
                sel = Call("select_composite_alpha_mode", modes)
       \/ sel = Call("select_format", NoFormats)
       \/ \E formats \in SeqsUpTo(Formats, MaxFormats) :
                sel = Call("select_format", SomeFormats(formats))
       \/ \E window \in Extents, current \in CurrentExtents, range \in ExtentRanges :
                sel = Call("determine_extent",
                           [window |-> window,
                            capabilities |-> [current_extent |-> current, extents |-> range]])
       \/ \E range \in ImageCountRanges, mode \in KnownPresentModes :
                sel = Call("compute_image_count",
                           [image_count |-> range, present_mode |-> mode])
       \/ \E adapters \in SeqsUpTo(QueueFamilyLists, MaxAdapters) :
                sel = Call("select_adapter", adapters)
       \/ \E families \in QueueFamilyLists, driver \in Drivers :
                sel = Call("DeviceState_new", [queue_families |-> families, driver |-> driver])
       \/ \E extent \in ViewportExtents : sel = Call("create_viewport", extent)
       \/ \E images \in Backbuffers : sel = Call("FramebufferState_new", images)

rendererVars ==
    << recreate_swapchain, swapchain_state, render_pass_state, framebuffer_state,
       viewport, created, queue, log, result, phase, streak, fence_resets,
       after_failed_acquire >>

\* fn has been called and has not returned yet
Calling(fn) == sel.fn = fn /\ ~sel.done

Returning(output) == [sel EXCEPT !.done = TRUE, !.output = output]

SelectPresentMode ==
    /\ Calling("select_present_mode")
    /\ sel' = Returning(select_present_mode(sel.input))
    /\ UNCHANGED rendererVars

SelectCompositeAlphaMode ==
    /\ Calling("select_composite_alpha_mode")
    /\ sel' = Returning(select_composite_alpha_mode(sel.input))
    /\ UNCHANGED rendererVars

SelectFormat ==
    /\ Calling("select_format")
    /\ sel' = Returning(select_format(sel.input))
    /\ UNCHANGED rendererVars

DetermineExtent ==
    /\ Calling("determine_extent")
    /\ sel' = Returning(determine_extent(sel.input.window, sel.input.capabilities))
    /\ UNCHANGED rendererVars

ComputeImageCount ==
    /\ Calling("compute_image_count")
    /\ sel' = Returning(compute_image_count(sel.input.image_count, sel.input.present_mode))
    /\ UNCHANGED rendererVars

SelectAdapter ==
    /\ Calling("select_adapter")
    /\ sel' = Returning(select_adapter(sel.input))
    /\ UNCHANGED rendererVars

OpenDevice ==
    /\ Calling("DeviceState_new")
    /\ sel' = Returning(DeviceState_new(sel.input.queue_families, sel.input.driver))
    /\ UNCHANGED rendererVars

CreateViewport ==
    /\ Calling("create_viewport")
    /\ sel' = Returning(create_viewport_rect(sel.input))
    /\ UNCHANGED rendererVars

BuildFrameResources ==
    /\ Calling("FramebufferState_new")
    /\ sel' = Returning(FramebufferState_new_fields(sel.input))
    /\ UNCHANGED rendererVars

SelectionNext ==
    \/ SelectPresentMode
    \/ SelectCompositeAlphaMode
    \/ SelectFormat
    \/ DetermineExtent
    \/ ComputeImageCount
    \/ SelectAdapter
    \/ OpenDevice
    \/ CreateViewport
    \/ BuildFrameResources

SelectionSpec == SelectionInit /\ [][SelectionNext]_vars

\* the call of fn has returned
Returned(fn) == sel.fn = fn /\ sel.done

-----------------------------------------------------------------------------
(* What the selection functions return *)

\* The place of a present mode in the order Mailbox > Fifo > Relaxed > Immediate.
PresentModeRank(present_mode) ==
    CASE present_mode = "MAILBOX" -> 1
      [] present_mode = "FIFO" -> 2
      [] present_mode = "RELAXED" -> 3
      [] present_mode = "IMMEDIATE" -> 4

\* C12: when the supported set holds at least one of Mailbox, Fifo, Relaxed
\* and Immediate, present-mode selection returns the member that comes first
\* in the order Mailbox > Fifo > Relaxed > Immediate; it fails with the
\* no-present-mode error exactly when the set holds none of the four.
C12_PresentModePriority ==
    Returned("select_present_mode") =>
        LET known == sel.input \cap {"MAILBOX", "FIFO", "RELAXED", "IMMEDIATE"}
        IN  /\ (sel.output = Err(ErrNoPresentMode)) <=> (known = {})
            /\ known # {} =>
                /\ sel.output.ok
                /\ sel.output.value \in known
                /\ \A present_mode \in known :
                        PresentModeRank(sel.output.value) <= PresentModeRank(present_mode)

\* A set without Mailbox that holds several of the other modes and a mode the
\* renderer does not know: the best of the known ones is returned.
C12_Witness ==
    /\ Returned("select_present_mode")
    /\ "MAILBOX" \notin sel.input
    /\ {"RELAXED", "IMMEDIATE", "SHARED_DEMAND_REFRESH"} \subseteq sel.input
    /\ sel.output.ok
    /\ sel.output.value = (IF "FIFO" \in sel.input THEN "FIFO" ELSE "RELAXED")

\* The formats whose channel type is sRGB.
SrgbFormats == {"Rgba8Srgb", "Bgra8Srgb"}

\* C13: from a list that holds an sRGB format the first sRGB entry in list
\* order is chosen; from a non-empty list without an sRGB entry the first
\* entry is chosen; without a list 8-bit sRGB RGBA is chosen; an empty list
\* fails with the empty-format-list error.
C13_FormatSelection ==
    Returned("select_format") =>
        LET formats == sel.input.formats
            srgb == {k \in 1 .. Len(formats) : formats[k] \in SrgbFormats}
        IN  /\ ~sel.input.some => sel.output = Ok("Rgba8Srgb")
            /\ sel.input.some /\ formats = << >> => sel.output = Err(ErrEmptyFormatList)
            /\ sel.input.some /\ srgb # {} =>
                \E k \in srgb :
                    /\ sel.output = Ok(formats[k])
                    /\ \A j \in 1 .. (k - 1) : j \notin srgb
            /\ sel.input.some /\ formats # << >> /\ srgb = {} =>
                sel.output = Ok(formats[1])

\* A list whose first entry is not sRGB and whose second entry is: the second
\* entry is chosen.
C13_Witness ==
    /\ Returned("select_format")
    /\ sel.input.some
    /\ Len(sel.input.formats) = 2
    /\ sel.input.formats[1] \notin SrgbFormats
    /\ sel.input.formats[2] \in SrgbFormats
    /\ sel.output = Ok(sel.input.formats[2])

\* v is x clamped into [lo, hi]
IsClamped(v, x, lo, hi) ==
    /\ x < lo => v = lo
    /\ x > hi => v = hi
    /\ lo <= x /\ x <= hi => v = x

C15_ImageCountClamped ==
    Returned("compute_image_count") =>
        LET image_count == sel.input.image_count
            preferred == IF sel.input.present_mode = "MAILBOX" THEN 3 ELSE 2
        IN  /\ image_count.start <= sel.output
            /\ sel.output <= image_count.end
            /\ IsClamped(sel.output, preferred, image_count.start, image_count.end)

\* Mailbox on a surface that supports two images at most: two images, not three.
C15_Witness ==
    /\ Returned("compute_image_count")
    /\ sel.input.present_mode = "MAILBOX"
    /\ sel.input.image_count.end = 2
    /\ sel.output = 2

\* The place of a composite alpha mode in the order
\* Opaque > Inherit > Premultiplied > Postmultiplied.
CompositeAlphaRank(composite_alpha_mode) ==
    CASE composite_alpha_mode = "OPAQUE" -> 1
      [] composite_alpha_mode = "INHERIT" -> 2
      [] composite_alpha_mode = "PREMULTIPLIED" -> 3
      [] composite_alpha_mode = "POSTMULTIPLIED" -> 4

\* C16: composite-alpha selection returns the first mode of the order
\* Opaque > Inherit > Premultiplied > Postmultiplied that the surface
\* supports; it fails with the no-composite-alpha error exactly when the
\* surface supports none of the four.
C16_CompositeAlphaPriority ==
    Returned("select_composite_alpha_mode") =>
        /\ (sel.output = Err(ErrNoCompositeAlpha)) <=> (sel.input = {})
        /\ sel.input # {} =>
            /\ sel.output.ok
            /\ sel.output.value \in sel.input
            /\ \A composite_alpha_mode \in sel.input :
                    CompositeAlphaRank(sel.output.value)
                        <= CompositeAlphaRank(composite_alpha_mode)

\* A surface that supports every mode but Opaque: Inherit is returned.
C16_Witness ==
    /\ Returned("select_composite_alpha_mode")
    /\ sel.input = {"INHERIT", "PREMULTIPLIED", "POSTMULTIPLIED"}
    /\ sel.output = Ok("INHERIT")

\* The positions of the queue families of a list that support graphics and
\* are accepted by the surface.
MatchingFamilies(queue_families) ==
    {f \in 1 .. Len(queue_families) :
        /\ queue_families[f].queue_type \in {"General", "Graphics"}
        /\ queue_families[f].surface}

\* C17: adapter selection returns the first adapter in input order that has a
\* queue family which supports graphics and is accepted by the surface; it
\* fails with the no-supported-adapter error exactly when no adapter of the
\* list has such a queue family.
C17_FirstSupportedAdapter ==
    Returned("select_adapter") =>
        LET supported == {a \in 1 .. Len(sel.input) : MatchingFamilies(sel.input[a]) # {}}
        IN  /\ (sel.output = Err(ErrNoAdapter)) <=> (supported = {})
            /\ supported # {} =>
                /\ sel.output.ok
                /\ sel.output.value \in supported
                /\ \A a \in supported : sel.output.value <= a

\* The first adapter has a graphics family the surface does not accept, the
\* second one has a family with both: the second adapter is returned.
C17_Witness ==
    /\ Returned("select_adapter")
    /\ Len(sel.input) = 2
    /\ MatchingFamilies(sel.input[1]) = {}
    /\ \E f \in 1 .. Len(sel.input[1]) : sel.input[1][f].queue_type = "Graphics"
    /\ MatchingFamilies(sel.input[2]) # {}
    /\ sel.output = Ok(2)

\* C18: opening the device context fails with the no-supported-queue-family
\* error, and opens no device, when no queue family of the adapter supports
\* graphics and is accepted by the surface; it fails with the device-open
\* error when the driver refuses to open the device; it fails with a
\* queue-group error when the opened device has no queue group of the selected
\* family or that group holds no queue; otherwise it yields one queue group,
\* whose family is the first matching family.
C18_DeviceContextOutcome ==
    Returned("DeviceState_new") =>
        LET queue_families == sel.input.queue_families
            driver == sel.input.driver
            matching == MatchingFamilies(queue_families)
            first == CHOOSE f \in matching : \A g \in matching : f <= g
            groups == {g \in 1 .. Len(driver.queue_groups) :
                            driver.queue_groups[g].family = queue_families[first].id}
            group == CHOOSE g \in groups : \A h \in groups : g <= h
        IN  IF matching = {}
            THEN ~sel.output.ok /\ sel.output.value = ErrNoQueueFamily /\ ~sel.output.opened
            ELSE IF driver.refuses
            THEN ~sel.output.ok /\ sel.output.value = ErrOpenDevice
            ELSE IF groups = {} \/ driver.queue_groups[group].queues = 0
            THEN /\ ~sel.output.ok
                 /\ sel.output.value \in {ErrNoQueueGroup, ErrNoQueues}
                 /\ sel.output.opened
            ELSE /\ sel.output.ok
                 /\ sel.output.opened
                 /\ sel.output.value.queue_family = queue_families[first].id
                 /\ sel.output.value.queue_group \in groups
                 /\ driver.queue_groups[sel.output.value.queue_group].family
                        = queue_families[first].id

\* The first queue family has graphics and is not accepted by the surface, the
\* second one matches, and the device has a queue group of either: the group
\* of the second family is returned.
C18_Witness ==
    /\ Returned("DeviceState_new")
    /\ Len(sel.input.queue_families) = 2
    /\ MatchingFamilies(sel.input.queue_families) = {2}
    /\ sel.input.queue_families[1].queue_type = "Graphics"
    /\ ~sel.input.driver.refuses
    /\ Len(sel.input.driver.queue_groups) = 2
    /\ sel.input.driver.queue_groups[1].family = 1
    /\ sel.input.driver.queue_groups[2].family = 2
    /\ sel.output.ok
    /\ sel.output.value = [queue_family |-> 2, queue_group |-> 2]

\* C30: the viewport rectangle is x = 0, y = 0, w = the width of the extent,
\* h = the height of the extent, for every extent.
C30_ViewportCoversExtent ==
    Returned("create_viewport") =>
        sel.output = [x |-> 0, y |-> 0, w |-> sel.input.width, h |-> sel.input.height]

\* the vectors of a FramebufferState that are indexed by image
PerImageVectors ==
    {"framebuffers", "frame_images", "command_pools", "command_buffer_lists",
     "in_flight_fences"}

\* the vectors of a FramebufferState that are indexed by semaphore slot
PerSlotVectors == {"acquire_semaphores", "present_semaphores"}

\* C35: in the frame resources built from a backbuffer, the framebuffers, the
\* image views, the command pools, the command buffer lists, the fences, the
\* acquire semaphores and the present semaphores are each as many as the
\* images of the backbuffer, so that every image index and every slot below
\* that number has exactly one entry in each; framebuffer and image view k
\* belong to image k.
C35_OneResourceSetPerImage ==
    Returned("FramebufferState_new") =>
        /\ sel.output.number_of_frames = Len(sel.input)
        /\ \A v \in PerImageVectors \cup PerSlotVectors :
                DOMAIN sel.output[v] = 1 .. Len(sel.input)
        /\ \A k \in 1 .. Len(sel.input) :
            /\ sel.output.frame_images[k][1] = sel.input[k]
            /\ sel.output.frame_images[k][2].image = sel.input[k]
            /\ sel.output.framebuffers[k].image_view = sel.output.frame_images[k][2]
            /\ sel.output.command_buffer_lists[k] = << >>
            /\ sel.output.in_flight_fences[k].signaled

\* Frame resources were built from a backbuffer of the largest size.
C35_Witness ==
    /\ Returned("FramebufferState_new")
    /\ Len(sel.input) = MaxBackbufferImages
    /\ Len(sel.output.present_semaphores) = MaxBackbufferImages

====
